---- MODULE Spec2Model ----
(***************************************************************************)
(* A model of the agent-task GitHub integration scripts:                   *)
(*   scripts/github_integrator.py      (the run from task loading to the   *)
(*                                      ledger, branch naming, commit      *)
(*                                      message, issue reconciliation,     *)
(*                                      ledger merge)                      *)
(*   scripts/validate_agent_linkage.py (task / report / ledger linkage)    *)
(*   scripts/validate_agent_report.py  (report contract validation)        *)
(*                                                                         *)
(* Python strings are sequences of one-character strings, so that slicing, *)
(* substring tests, regular-expression substitution and ordering are       *)
(* computed as the code computes them.                                     *)
(***************************************************************************)
EXTENDS Integers, Sequences, FiniteSets, TLC

VARIABLES
    task,           \* TaskInfo of the run: [task_id, title, goal, acceptance_criteria]
    issue_data,     \* {"number": n, "url": u}; 0 models None
    branch_name,    \* result of _generate_branch_name, <<>> before the call
    commit_msg,     \* result of _generate_commit_message, <<>> before the call
    ledger,         \* the ledger document at LEDGER_PATH
    merges,         \* history: the (task_id, pr_data) of the _update_ledger calls
    writers,        \* the concurrent invocations inside _update_ledger: what each
                    \* has loaded and how far it is
                    \* made directly on the ledger
    task_ids,       \* linkage validator: ids of the task files
    report_ids,     \* linkage validator: ids of the report files
    ledger_ids,     \* linkage validator: ids of the ledger entries
    report,         \* report validator: the report mapping
    contract,       \* report validator: the report contract
    validator,      \* batch: the validator script that runs, "task" or "report"
    doc_files,      \* batch: the documents iter_*_files returned, in sorted order
    file_no,        \* batch: number of documents the loop of main has handled
    scan,           \* batch: position of main
    repo_env,       \* resolver: GITHUB_REPOSITORY, <<>> when unset
    origin,         \* resolver: what `git remote get-url origin` gives
    resolved,       \* resolver: _detect_repository has returned
    errors,         \* the violation list a validator returned
    rc,             \* exit code of the entry point, -1 while it has not returned
    pc,             \* position of the integration run
    issues,         \* the remote repository's issues, oldest first
    run_no,         \* number of the current integration run
    existing,       \* result of _find_existing_issue in the current run
    args,           \* command line of the run: [task_id, skip_pr, ci_mode]
    repo,           \* self.repo, <<>> for None
    auth,           \* self.auth.method, "none" for None
    pr_data,        \* result of _create_branch_and_pr, NoIssue for None
    calls,          \* the commands and file writes of the current run, in order
    typed,          \* the lines read by _prompt_for_auth in the current run
    branches,       \* branch names of the local clone and of origin
    runs            \* history, one record per run: its task id, the number of
                    \* issues naming that id when it started, how it ended

branchVars  == <<task, issue_data, branch_name, commit_msg>>
ledgerVars  == <<ledger, merges, writers>>
linkageVars == <<task_ids, report_ids, ledger_ids>>
reportVars  == <<report, contract>>
batchVars   == <<validator, doc_files, file_no, scan>>
resolverVars == <<repo_env, origin, resolved>>
runVars     == <<pc, issues, run_no, existing, args, repo, auth, pr_data, calls,
                 typed, branches, runs>>
vars == <<task, issue_data, branch_name, commit_msg, ledger, merges, writers,
          task_ids, report_ids, ledger_ids, report, contract, validator, doc_files,
          file_no, scan, repo_env, origin, resolved, errors, rc,
          pc, issues, run_no, existing, args, repo, auth, pr_data, calls,
          typed, branches, runs>>

-----------------------------------------------------------------------------
(* Bounds of the model *)

MaxTitleTokens == 2     \* a title is a concatenation of at most this many tokens
MaxIdPad == 40          \* a task id is a 4-character stem plus at most this many 'x'
MaxCriteria == 4        \* a task has at most this many acceptance criteria

(* Program constants *)

SlugLimit == 30         \* clean_title[:30]
BranchLimit == 50       \* len(branch) > 50, branch[:50]
DescLimit == 50         \* desc[:50]
CriteriaLimit == 3      \* task.acceptance_criteria[:3]

-----------------------------------------------------------------------------
(* Python str primitives on sequences of characters *)

Min(a, b) == IF a <= b THEN a ELSE b

UpperChars == <<"A", "B", "C", "D", "F", "I", "P", "R", "T">>
LowerChars == <<"a", "b", "c", "d", "f", "i", "p", "r", "t">>
OtherLetters == {"e", "g", "h", "k", "l", "m", "n", "o", "s", "u", "x"}
Digits == <<"0", "1", "2", "3", "4", "5", "6", "7", "8", "9">>

Range(s) == {s[i] : i \in DOMAIN s}

\* \w of the re module: letters, digits and the underscore
IsWord(c) == c \in Range(UpperChars) \cup Range(LowerChars) \cup OtherLetters
                   \cup Range(Digits) \cup {"_"}
\* \s of the re module
IsSpace(c) == c \in {" ", "\n", "\t"}

LowerChar(c) ==
    IF \E i \in DOMAIN UpperChars : UpperChars[i] = c
    THEN LowerChars[CHOOSE i \in DOMAIN UpperChars : UpperChars[i] = c]
    ELSE c

\* str.lower()
Lower(s) == [i \in DOMAIN s |-> LowerChar(s[i])]

\* s[:n]
Take(s, n) == SubSeq(s, 1, Min(n, Len(s)))

\* sub in s
Contains(sub, s) ==
    \E i \in 0..(Len(s) - Len(sub)) : SubSeq(s, i + 1, i + Len(sub)) = sub

\* s.startswith(p)
StartsWith(s, p) == Len(p) <= Len(s) /\ SubSeq(s, 1, Len(p)) = p

\* re.sub(r'[^\w\s-]', '', s)
StripSpecial(s) == SelectSeq(s, LAMBDA c : IsWord(c) \/ IsSpace(c) \/ c = "-")

\* re.sub(r'[-\s]+', '-', s): every maximal run of hyphens and whitespace
\* becomes one hyphen
IsSep(c) == c = "-" \/ IsSpace(c)
RECURSIVE CollapseSeps(_)
CollapseSeps(s) ==
    IF s = <<>> THEN <<>>
    ELSE IF IsSep(Head(s))
         THEN IF Len(s) > 1 /\ IsSep(s[2])
              THEN CollapseSeps(Tail(s))
              ELSE <<"-">> \o CollapseSeps(Tail(s))
         ELSE <<Head(s)>> \o CollapseSeps(Tail(s))

\* s.strip('-')
RECURSIVE LStripHyphen(_)
LStripHyphen(s) ==
    IF s # <<>> /\ Head(s) = "-" THEN LStripHyphen(Tail(s)) ELSE s
RECURSIVE RStripHyphen(_)
RStripHyphen(s) ==
    IF s # <<>> /\ s[Len(s)] = "-" THEN RStripHyphen(SubSeq(s, 1, Len(s) - 1)) ELSE s
StripHyphen(s) == RStripHyphen(LStripHyphen(s))

\* s.rsplit('-', 1)[0]: the part before the last hyphen, s itself if it has none
RSplitHyphenHead(s) ==
    IF \E i \in DOMAIN s : s[i] = "-"
    THEN LET last == CHOOSE i \in DOMAIN s :
                        s[i] = "-" /\ \A j \in DOMAIN s : s[j] = "-" => j <= i
         IN  SubSeq(s, 1, last - 1)
    ELSE s

\* the concatenation of a sequence of sequences
RECURSIVE Flatten(_)
Flatten(ss) == IF ss = <<>> THEN <<>> ELSE Head(ss) \o Flatten(Tail(ss))

\* "\n".join(lines)
RECURSIVE JoinLines(_)
JoinLines(lines) ==
    IF lines = <<>> THEN <<>>
    ELSE IF Len(lines) = 1 THEN lines[1]
    ELSE lines[1] \o <<"\n">> \o JoinLines(Tail(lines))

\* s.split("\n")[0]
FirstLine(s) ==
    IF \E i \in DOMAIN s : s[i] = "\n"
    THEN SubSeq(s, 1, (CHOOSE i \in DOMAIN s :
                          s[i] = "\n" /\ \A j \in 1..(i - 1) : s[j] # "\n") - 1)
    ELSE s

\* The characters of the model in code point order; str comparison (and so
\* sorted) compares code points position by position
CodePointOrder ==
    <<"\t", "\n", " ", "!", "#", "(", ")", "-", "/",
      "0", "1", "2", "3", "4", "5", "6", "7", "8", "9", ":",
      "A", "B", "C", "D", "F", "I", "P", "R", "T", "[", "]", "_",
      "a", "b", "c", "d", "e", "f", "g", "h", "i", "k", "l", "m", "n", "o",
      "p", "r", "s", "t", "u", "x">>
Ord(c) == CHOOSE i \in DOMAIN CodePointOrder : CodePointOrder[i] = c

\* a < b on str
StrLess(a, b) ==
    \E k \in 1..(Len(b)) :
        /\ \A i \in 1..(k - 1) : i <= Len(a) /\ a[i] = b[i]
        /\ \/ k = Len(a) + 1
           \/ k <= Len(a) /\ Ord(a[k]) < Ord(b[k])

\* sorted(S) for a set of str
RECURSIVE Sorted_Descending(_)
Sorted_Descending(S) ==
    IF S = {} THEN <<>>
    ELSE LET m == CHOOSE x \in S : \A y \in S : x = y \/ StrLess(y, x)
         IN  <<m>> \o Sorted_Descending(S \ {m})
RECURSIVE Sorted(_)
Sorted(S) ==
    IF S = {} THEN <<>>
    ELSE LET m == CHOOSE x \in S : \A y \in S : x = y \/ StrLess(x, y)
         IN  <<m>> \o Sorted(S \ {m})

\* str(n) for a natural number
RECURSIVE IntToStr(_)
IntToStr(n) ==
    IF n < 10 THEN <<Digits[n + 1]>>
    ELSE IntToStr(n \div 10) \o <<Digits[(n % 10) + 1]>>

\* s.strip()
RECURSIVE LStrip(_)
LStrip(s) == IF s # <<>> /\ IsSpace(Head(s)) THEN LStrip(Tail(s)) ELSE s
RECURSIVE RStrip(_)
RStrip(s) ==
    IF s # <<>> /\ IsSpace(s[Len(s)]) THEN RStrip(SubSeq(s, 1, Len(s) - 1)) ELSE s
Strip(s) == RStrip(LStrip(s))

\* s.replace(old, new): every occurrence, scanning from the left
RECURSIVE Replace(_, _, _)
Replace(s, old, new) ==
    IF Len(s) < Len(old) THEN s
    ELSE IF StartsWith(s, old)
         THEN new \o Replace(SubSeq(s, Len(old) + 1, Len(s)), old, new)
         ELSE <<Head(s)>> \o Replace(Tail(s), old, new)

\* s.split(sep)[-1]: what follows the last occurrence of sep, s if there is none
RECURSIVE SplitLast(_, _)
SplitLast(s, sep) ==
    IF Contains(sep, s)
    THEN LET i == CHOOSE i \in 1..Len(s) :
                     /\ StartsWith(SubSeq(s, i, Len(s)), sep)
                     /\ \A j \in 1..(i - 1) : ~StartsWith(SubSeq(s, j, Len(s)), sep)
         IN  SplitLast(SubSeq(s, i + Len(sep), Len(s)), sep)
    ELSE s

-----------------------------------------------------------------------------
(* String literals of github_integrator.py *)

S_feature == <<"f", "e", "a", "t", "u", "r", "e", "/">>
S_fix == <<"f", "i", "x">>
S_bug == <<"b", "u", "g">>
S_test == <<"t", "e", "s", "t">>
S_doc == <<"d", "o", "c">>
S_docs == <<"d", "o", "c", "s">>
S_refactor == <<"r", "e", "f", "a", "c", "t", "o", "r">>
S_feat == <<"f", "e", "a", "t">>
S_closes == <<"C", "l", "o", "s", "e", "s", " ", "#">>
S_github_com == <<"g", "i", "t", "h", "u", "b", ".", "c", "o", "m">>
S_dot_git == <<".", "g", "i", "t">>
S_git_at == <<"g", "i", "t", "@", "g", "i", "t", "h", "u", "b", ".", "c", "o", "m", ":">>
S_github_com_slash == <<"g", "i", "t", "h", "u", "b", ".", "c", "o", "m", "/">>

-----------------------------------------------------------------------------
(* Issue and pull request references: {"number": n, "url": u} *)

\* A url ends in the number of the issue or pull request it names
Url(kind, n) == [kind |-> kind, n |-> n]
Ref(kind, n) == [number |-> n, url |-> Url(kind, n)]
\* {"number": None, "url": None}; also stands for a PR reference of None
NoIssue == [number |-> 0, url |-> Url("none", 0)]

-----------------------------------------------------------------------------
(* GitHubIntegrator._generate_branch_name *)

CleanTitle(title) ==
    StripHyphen(Take(CollapseSeps(StripSpecial(Lower(title))), SlugLimit))

UntruncatedBranch(t) == S_feature \o t.task_id \o <<"-">> \o CleanTitle(t.title)

Truncate_Missing(branch) == branch
Truncate_FirstHyphen(branch) ==
    IF Len(branch) > BranchLimit
    THEN LET cut == Take(branch, BranchLimit) IN
         IF \E i \in DOMAIN cut : cut[i] = "-"
         THEN SubSeq(cut, 1, (CHOOSE i \in DOMAIN cut :
                                 cut[i] = "-" /\ \A j \in 1..(i - 1) : cut[j] # "-") - 1)
         ELSE cut
    ELSE branch
Truncate_HardCut(branch) ==
    IF Len(branch) > BranchLimit THEN Take(branch, BranchLimit) ELSE branch

Truncate(branch) ==
    IF Len(branch) > BranchLimit
    THEN RSplitHyphenHead(Take(branch, BranchLimit))
    ELSE branch

_generate_branch_name(t) == Truncate(UntruncatedBranch(t))

(* GitHubIntegrator._generate_commit_message *)

CommitType_DocBeforeTest(title) ==
    LET task_lower == Lower(title) IN
    IF Contains(S_fix, task_lower) \/ Contains(S_bug, task_lower) THEN S_fix
    ELSE IF Contains(S_doc, task_lower) THEN S_docs
    ELSE IF Contains(S_test, task_lower) THEN S_test
    ELSE IF Contains(S_refactor, task_lower) THEN S_refactor
    ELSE S_feat
CommitType(title) ==
    LET task_lower == Lower(title) IN
    IF Contains(S_fix, task_lower) \/ Contains(S_bug, task_lower) THEN S_fix
    ELSE IF Contains(S_test, task_lower) THEN S_test
    ELSE IF Contains(S_doc, task_lower) THEN S_docs
    ELSE IF Contains(S_refactor, task_lower) THEN S_refactor
    ELSE S_feat

CommitLines_AllCriteria(t, idata) ==
    LET desc == Take(StripSpecial(Lower(t.title)), DescLimit)
        head == <<CommitType(t.title) \o <<"(">> \o t.task_id \o <<")", ":", " ">> \o desc,
                  <<>>,
                  <<"-", " ">> \o t.goal>>
        crit == [i \in 1..Len(t.acceptance_criteria) |->
                    <<"-", " ">> \o t.acceptance_criteria[i]]
        foot == IF idata.number # 0
                THEN <<(<<>>), S_closes \o IntToStr(idata.number)>>
                ELSE <<>>
    IN  head \o crit \o foot

CommitLines(t, idata) ==
    LET desc == Take(StripSpecial(Lower(t.title)), DescLimit)
        head == <<CommitType(t.title) \o <<"(">> \o t.task_id \o <<")", ":", " ">> \o desc,
                  <<>>,
                  <<"-", " ">> \o t.goal>>
        crit == [i \in 1..Min(CriteriaLimit, Len(t.acceptance_criteria)) |->
                    <<"-", " ">> \o t.acceptance_criteria[i]]
        foot == IF idata.number # 0
                THEN <<(<<>>), S_closes \o IntToStr(idata.number)>>
                ELSE <<>>
    IN  head \o crit \o foot

_generate_commit_message(t, idata) == JoinLines(CommitLines(t, idata))

-----------------------------------------------------------------------------
(* The tasks the branch and commit functions are applied to *)

Tok1 == <<"F", "i", "x", " ", "l", "o", "g", "i", "n", " ", "b", "u", "g">>
Tok2 == <<"A", "d", "d", " ", "m", "e", "t", "r", "i", "c", "s", " ", "d", "a", "s", "h", "b", "o", "a", "r", "d">>
Tok3 == <<" ", "-", " ">>
Tok4 == <<"T", "e", "s", "t", ":", " ", "d", "o", "c", "s", "!">>
Tok5 == <<"R", "e", "f", "a", "c", "t", "o", "r", "_", "A", "P", "I">>
Tok6 == <<"u", "p", "d", "a", "t", "e", "\n">>
Tok7 == <<"D", "o", "c", "-", "-">>
TitleTokens == <<Tok1, Tok2, Tok3, Tok4, Tok5, Tok6, Tok7>>

Titles ==
    {Flatten([i \in DOMAIN ix |-> TitleTokens[ix[i]]]) :
        ix \in UNION {[1..n -> DOMAIN TitleTokens] : n \in 0..MaxTitleTokens}}

IdPlain == <<"T", "0", "1", "0">>
IdHyphen == <<"T", "-", "1", "0">>
Pad(n) == [i \in 1..n |-> "x"]
IdPads == {0, 8} \cup {n \in 0..MaxIdPad : n >= MaxIdPad - 4}
TaskIdsOfModel == {stem \o Pad(n) : stem \in {IdPlain, IdHyphen}, n \in IdPads}

Goal == <<"g", "o", "a", "l">>
Criterion(i) == <<"c", Digits[i + 1]>>
CriteriaLists == {[i \in 1..n |-> Criterion(i)] : n \in 0..MaxCriteria}

-----------------------------------------------------------------------------
(* GitHubIntegrator._update_ledger                                         *)
(*                                                                         *)
(* The ledger file is [exists, kind, version, tasks]: kind says what       *)
(* yaml.safe_load makes of it ("mapping", "empty" for None, "unparsable"   *)
(* when it raises, "nonmapping" for any other document).  An item of tasks *)
(* is a record with the keys of the YAML mapping; an item that is not a    *)
(* mapping is the record [scalar |-> ...].                                 *)

IsDict(item) == "scalar" \notin DOMAIN item

\* ledger = {"version": 2, "tasks": []}, replaced by the loaded document
\* unless the file is absent, empty or unparsable
LoadLedger(file) ==
    IF file.exists /\ file.kind = "mapping"
    THEN [version |-> file.version, tasks |-> file.tasks]
    ELSE [version |-> 2, tasks |-> <<>>]

\* the loop over ledger.get("tasks", []): index of the first mapping whose id
\* is task_id, 0 if there is none
FindEntry_WrongKey(tasks, task_id) == 0
FindEntry(tasks, task_id) ==
    LET hit(i) == IsDict(tasks[i]) /\ "id" \in DOMAIN tasks[i] /\ tasks[i].id = task_id IN
    IF \E i \in DOMAIN tasks : hit(i)
    THEN CHOOSE i \in DOMAIN tasks : hit(i) /\ \A j \in 1..(i - 1) : ~hit(j)
    ELSE 0

\* task_entry["github"] = {...}, then the PR reference if there is one
GithubOf_KeepsRecordedPr(entry, task_id, idata, prdata) ==
    LET base == [issue_url |-> idata.url, issue_number |-> idata.number,
                 branch |-> S_feature \o task_id]
        old == IF "github" \in DOMAIN entry /\ "pr_url" \in DOMAIN entry.github
               THEN [url |-> entry.github.pr_url, number |-> entry.github.pr_number]
               ELSE prdata
    IN  IF prdata # NoIssue
        THEN [issue_url |-> base.issue_url, issue_number |-> base.issue_number,
              branch |-> base.branch, pr_url |-> old.url, pr_number |-> old.number]
        ELSE base
GithubOf_RunBranch(entry, task_id, idata, prdata) ==
    LET base == [issue_url |-> idata.url, issue_number |-> idata.number,
                 branch |-> IF branch_name # <<>> THEN branch_name
                            ELSE S_feature \o task_id]
    IN  IF prdata # NoIssue
        THEN [issue_url |-> base.issue_url, issue_number |-> base.issue_number,
              branch |-> base.branch, pr_url |-> prdata.url, pr_number |-> prdata.number]
        ELSE base

GithubOf(entry, task_id, idata, prdata) ==
    LET base == [issue_url |-> idata.url, issue_number |-> idata.number,
                 branch |-> S_feature \o task_id]
    IN  IF prdata # NoIssue
        THEN [issue_url |-> base.issue_url, issue_number |-> base.issue_number,
              branch |-> base.branch, pr_url |-> prdata.url, pr_number |-> prdata.number]
        ELSE base

MergedEntry_Fresh(entry, task_id, idata, prdata, date) ==
    [id |-> task_id, status |-> "completed",
     github |-> GithubOf(entry, task_id, idata, prdata), completed |-> date]

\* the assignments to task_entry["status"], ["github"] and ["completed"]
MergedEntry(entry, task_id, idata, prdata, date) ==
    [k \in DOMAIN entry \cup {"status", "github", "completed"} |->
        CASE k = "status" -> "completed"
          [] k = "github" -> GithubOf(entry, task_id, idata, prdata)
          [] k = "completed" -> date
          [] OTHER -> entry[k]]

\* the file _update_ledger writes back
_update_ledger(file, task_id, idata, prdata, date) ==
    LET doc == LoadLedger(file)
        i == FindEntry(doc.tasks, task_id)
        tasks == IF i = 0
                 THEN Append(doc.tasks,
                             MergedEntry([id |-> task_id], task_id, idata, prdata, date))
                 ELSE [doc.tasks EXCEPT
                          ![i] = MergedEntry(doc.tasks[i], task_id, idata, prdata, date)]
    IN  [exists |-> TRUE, kind |-> "mapping", version |-> doc.version, tasks |-> tasks]

\* ledger.get on a document that is not a mapping raises AttributeError
LedgerRaises(file) == file.exists /\ file.kind = "nonmapping"

-----------------------------------------------------------------------------
(* GitHubIntegrator._detect_repository                                     *)

\* env is GITHUB_REPOSITORY (<<>> when unset or empty); remote is the outcome
\* of `git remote get-url origin`: [ok, stdout].  <<>> stands for None: the
\* caller tests `if not self.repo`.
_detect_repository(env, remote) ==
    IF env # <<>> THEN env
    ELSE IF ~remote.ok THEN <<>>
    ELSE LET remote_url == Strip(remote.stdout) IN
         IF Contains(S_github_com, remote_url)
         THEN LET url == Replace(remote_url, S_dot_git, <<>>) IN
              IF StartsWith(url, S_git_at) THEN Replace(url, S_git_at, <<>>)
              ELSE IF Contains(S_github_com_slash, url)
                   THEN SplitLast(url, S_github_com_slash)
                   ELSE <<>>
         ELSE <<>>

(* GitHubIntegrator._ensure_auth and _prompt_for_auth                      *)

_ensure_auth_PromptsInCi(gh, token, ci_mode) ==
    IF gh = "ok" THEN "gh_cli"
    ELSE IF token # "" THEN "token"
    ELSE "prompt"

\* gh is "ok" (installed, `gh auth status` runs 0), "unauthenticated" or
\* "absent"; token is GITHUB_TOKEN or GH_TOKEN, "" when neither is set.
\* "prompt" says that the call goes on to _prompt_for_auth.
_ensure_auth(gh, token, ci_mode) ==
    IF gh = "ok" THEN "gh_cli"
    ELSE IF token # "" THEN "token"
    ELSE IF ci_mode THEN "none"
    ELSE "prompt"

_prompt_for_auth_AnyToken(choice, token) ==
    IF choice = "2" /\ token # "EOF" THEN "token" ELSE "none"

\* choice and token are the two lines read from the terminal, already
\* stripped; "EOF" is an EOFError or KeyboardInterrupt
_prompt_for_auth(choice, token) ==
    IF choice = "2" /\ token # "EOF" /\ token # "" THEN "token" ELSE "none"

(* GitHubIntegrator._find_existing_issue, _create_issue, _update_issue      *)

\* f"[{task.task_id}] {task.title}"
IssueTitle(t) == <<"[">> \o t.task_id \o <<"]", " ">> \o t.title

\* _build_issue_body renders the task and, if there is one, the report
IssueBody(t, has_report) == [task |-> t.task_id, goal |-> t.goal, report |-> has_report]

\* the issues of the listing whose title contains task_id
Matching(listing, task_id) ==
    {i \in DOMAIN listing : Contains(task_id, listing[i].title)}

IssueLabels == {"agent-task", "automation"}
NewIssue(n, title, body) ==
    [number |-> n, title |-> title, body |-> body, labels |-> IssueLabels]

-----------------------------------------------------------------------------
(* validate_agent_linkage.py: main                                         *)
(*                                                                         *)
(* A violation is [kind, id]: the message of that kind formatted with id.  *)

TasksWithoutReports(T, R) == T \ R
ReportsWithoutTasks(T, R) == R \ T
LedgerMissingTasks_Reversed(T, L) == L \ T
LedgerMissingTasks(T, L) == T \ L

Violations(kind, ids) == [i \in DOMAIN ids |-> [kind |-> kind, id |-> ids[i]]]

LinkageErrors(T, R, L) ==
    Violations("task_without_report", Sorted(TasksWithoutReports(T, R)))
    \o Violations("report_without_task", Sorted(ReportsWithoutTasks(T, R)))
    \o Violations("task_not_in_ledger", Sorted(LedgerMissingTasks(T, L)))

-----------------------------------------------------------------------------
(* validate_agent_report.py: validate_report                               *)
(*                                                                         *)
(* A YAML value is a record tagged with its Python type: none, str, int,   *)
(* bool, list (items) or dict (d, a function from keys to values).         *)

PyNone == [t |-> "none"]
PyStr(s) == [t |-> "str", v |-> s]
PyInt(n) == [t |-> "int", v |-> n]
PyBool(b) == [t |-> "bool", v |-> b]
PyList(items) == [t |-> "list", items |-> items]
PyDict(d) == [t |-> "dict", d |-> d]
EmptyDict == PyDict([k \in {} |-> PyNone])

\* d.get(k, default) and k in d, for a dict d
DictGet(x, k, default) == IF k \in DOMAIN x.d THEN x.d[k] ELSE default
HasKey(x, k) == k \in DOMAIN x.d

\* x in xs, for a list xs
PyIn(x, xs) == \E i \in DOMAIN xs.items : xs.items[i].t = x.t /\ xs.items[i] = x

_is_list_of_str(x) ==
    x.t = "list" /\ \A i \in DOMAIN x.items : x.items[i].t = "str"

\* a violation: the message of that kind with the values formatted into it
Violation(kind, field, index, key, n, max) ==
    [kind |-> kind, field |-> field, index |-> index, key |-> key, n |-> n, max |-> max]

\* for k in required: if k not in report
MissingRequired(report_, required) ==
    LET miss == SelectSeq(required.items, LAMBDA k : ~HasKey(report_, k.v))
    IN  [i \in DOMAIN miss |-> Violation("missing_required", miss[i].v, -1, "", 0, 0)]

\* status = report.get("status"); if status not in allowed_status
StatusEnum(report_, contract_) ==
    LET status == DictGet(report_, "status", PyNone)
        allowed_status == DictGet(DictGet(contract_, "enums", EmptyDict), "status", PyList(<<>>))
    IN  IF ~PyIn(status, allowed_status)
        THEN <<Violation("status_not_allowed", "status", -1, "", 0, 0)>>
        ELSE <<>>

\* max_lines = contract.get("constraints", {}).get("summary_max_lines", 6)
SummaryMaxLines_ZeroIsDefault(contract_) ==
    LET given == DictGet(DictGet(contract_, "constraints", EmptyDict),
                         "summary_max_lines", PyInt(6)).v
    IN  IF given = 0 THEN 6 ELSE given
SummaryMaxLines(contract_) ==
    DictGet(DictGet(contract_, "constraints", EmptyDict), "summary_max_lines", PyInt(6)).v

SummaryConstraints(report_, contract_) ==
    LET summary == DictGet(report_, "summary", PyNone) IN
    IF ~_is_list_of_str(summary)
    THEN <<Violation("not_list_of_str", "summary", -1, "", 0, 0)>>
    ELSE LET max_lines == SummaryMaxLines(contract_) IN
         IF Len(summary.items) > max_lines
         THEN <<Violation("summary_too_long", "summary", -1, "",
                          Len(summary.items), max_lines)>>
         ELSE <<>>

\* the body of the loop over enumerate(acr)
AcrItem(item, i, item_req) ==
    IF item.t # "dict"
    THEN <<Violation("item_not_mapping", "acceptance_criteria_results", i, "", 0, 0)>>
    ELSE LET miss == SelectSeq(item_req.items, LAMBDA k : ~HasKey(item, k.v)) IN
         [j \in DOMAIN miss |->
             Violation("item_missing", "acceptance_criteria_results", i, miss[j].v, 0, 0)]
         \o (IF HasKey(item, "passed") /\ item.d["passed"].t # "bool"
             THEN <<Violation("passed_not_bool", "acceptance_criteria_results", i,
                              "passed", 0, 0)>>
             ELSE <<>>)

AcrShape_AbsentAccepted(report_, contract_) ==
    LET acr == DictGet(report_, "acceptance_criteria_results", PyNone)
        item_req == DictGet(DictGet(contract_, "acceptance_criteria_results_item", EmptyDict),
                            "required_fields", PyList(<<>>))
    IN  IF acr.t = "none" THEN <<>>
        ELSE IF acr.t # "list" \/ acr.items = <<>>
        THEN <<Violation("not_nonempty_list", "acceptance_criteria_results", -1, "", 0, 0)>>
        ELSE Flatten([i \in DOMAIN acr.items |-> AcrItem(acr.items[i], i - 1, item_req)])
AcrShape(report_, contract_) ==
    LET acr == DictGet(report_, "acceptance_criteria_results", PyNone)
        item_req == DictGet(DictGet(contract_, "acceptance_criteria_results_item", EmptyDict),
                            "required_fields", PyList(<<>>))
    IN  IF acr.t # "list" \/ acr.items = <<>>
        THEN <<Violation("not_nonempty_list", "acceptance_criteria_results", -1, "", 0, 0)>>
        ELSE Flatten([i \in DOMAIN acr.items |-> AcrItem(acr.items[i], i - 1, item_req)])

FilesShape(report_) ==
    LET files == DictGet(report_, "files_modified", PyNone)
        bad(f) == f.t # "dict" \/ ~HasKey(f, "path") \/ ~HasKey(f, "description")
    IN  IF files.t # "list"
        THEN <<Violation("not_list", "files_modified", -1, "", 0, 0)>>
        ELSE Flatten([i \in DOMAIN files.items |->
                        IF bad(files.items[i])
                        THEN <<Violation("file_item_shape", "files_modified", i - 1, "", 0, 0)>>
                        ELSE <<>>])

VerificationShape(report_, contract_) ==
    LET verification == DictGet(report_, "verification", PyNone)
        v_req == DictGet(DictGet(contract_, "verification", EmptyDict),
                         "required_fields", PyList(<<>>))
    IN  IF verification.t # "dict"
        THEN <<Violation("not_mapping", "verification", -1, "", 0, 0)>>
        ELSE LET miss == SelectSeq(v_req.items, LAMBDA k : ~HasKey(verification, k.v)) IN
             [j \in DOMAIN miss |->
                 Violation("verification_missing", "verification", -1, miss[j].v, 0, 0)]
             \o (IF HasKey(verification, "commands_run")
                    /\ ~_is_list_of_str(verification.d["commands_run"])
                 THEN <<Violation("not_list_of_str", "verification", -1, "commands_run", 0, 0)>>
                 ELSE <<>>)
             \o (IF HasKey(verification, "results")
                    /\ ~_is_list_of_str(verification.d["results"])
                 THEN <<Violation("not_list_of_str", "verification", -1, "results", 0, 0)>>
                 ELSE <<>>)

OptionalLists(report_) ==
    Flatten([i \in 1..2 |->
        LET k == <<"risks", "next_steps">>[i] IN
        IF HasKey(report_, k) /\ ~_is_list_of_str(report_.d[k])
        THEN <<Violation("not_list_of_str", k, -1, "", 0, 0)>>
        ELSE <<>>])

validate_report(report_, contract_) ==
    MissingRequired(report_, DictGet(contract_, "required_fields", PyList(<<>>)))
    \o StatusEnum(report_, contract_)
    \o SummaryConstraints(report_, contract_)
    \o AcrShape(report_, contract_)
    \o FilesShape(report_)
    \o VerificationShape(report_, contract_)
    \o OptionalLists(report_)

(* Where validate_report raises instead of returning                       *)

\* for k in x raises TypeError
NotIterable(x) == x.t \in {"none", "int", "bool"}
\* a list or a dict is unhashable: `k in d` raises TypeError for such a k
Unhashable(x) == x.t \in {"list", "dict"}
\* x.get(...) raises AttributeError unless x is a dict
NoGet(x) == x.t # "dict"
\* for k in required: if k not in document
RequiredLoopRaises(required) ==
    \/ NotIterable(required)
    \/ required.t = "list" /\ \E i \in DOMAIN required.items : Unhashable(required.items[i])
\* x in container
MembershipRaises(x, container) ==
    \/ NotIterable(container)
    \/ container.t = "str" /\ x.t # "str"
    \/ container.t = "dict" /\ Unhashable(x)
\* contract.get(section, {}).get("required_fields", []), iterated if loops
SectionRaises(contract_, section, loops) ==
    LET sec == DictGet(contract_, section, EmptyDict) IN
    \/ NoGet(sec)
    \/ loops /\ RequiredLoopRaises(DictGet(sec, "required_fields", PyList(<<>>)))

validate_report_raises(report_, contract_) ==
    LET enums == DictGet(contract_, "enums", EmptyDict)
        constraints == DictGet(contract_, "constraints", EmptyDict)
        acr == DictGet(report_, "acceptance_criteria_results", PyNone)
    IN  \/ NoGet(contract_)
        \/ RequiredLoopRaises(DictGet(contract_, "required_fields", PyList(<<>>)))
        \/ NoGet(enums)
        \/ MembershipRaises(DictGet(report_, "status", PyNone),
                            DictGet(enums, "status", PyList(<<>>)))
        \/ /\ _is_list_of_str(DictGet(report_, "summary", PyNone))
           /\ \/ NoGet(constraints)
              \/ DictGet(constraints, "summary_max_lines", PyInt(6)).t \notin {"int", "bool"}
        \/ SectionRaises(contract_, "acceptance_criteria_results_item",
                         acr.t = "list" /\ \E i \in DOMAIN acr.items : acr.items[i].t = "dict")
        \/ SectionRaises(contract_, "verification",
                         DictGet(report_, "verification", PyNone).t = "dict")

-----------------------------------------------------------------------------
(* validate_agent_task.py: validate_task                                   *)

ContextLimit == 10      \* if lines > 10

\* len(s.splitlines()) for a str of the characters of the model
SplitLinesCount(s) ==
    Cardinality({i \in DOMAIN s : s[i] = "\n"})
    + (IF s # <<>> /\ s[Len(s)] # "\n" THEN 1 ELSE 0)

ContextLength(task_) ==
    LET context == DictGet(task_, "context", PyNone) IN
    IF context.t = "str" /\ SplitLinesCount(context.v) > ContextLimit
    THEN <<Violation("context_too_long", "context", -1, "",
                     SplitLinesCount(context.v), ContextLimit)>>
    ELSE <<>>

InputsOutputs(task_) ==
    Flatten([i \in 1..2 |->
        LET val == DictGet(task_, <<"inputs", "outputs">>[i], PyNone) IN
        IF val.t # "none" /\ ~_is_list_of_str(val)
        THEN <<Violation("not_list_of_str", <<"inputs", "outputs">>[i], -1, "", 0, 0)>>
        ELSE <<>>])

AcceptanceCriteria(task_) ==
    LET ac == DictGet(task_, "acceptance_criteria", PyNone) IN
    IF ac.t = "none" THEN <<>>
    ELSE IF ~_is_list_of_str(ac)
    THEN <<Violation("not_list_of_str", "acceptance_criteria", -1, "", 0, 0)>>
    ELSE IF Len(ac.items) = 0
    THEN <<Violation("empty", "acceptance_criteria", -1, "", 0, 0)>>
    ELSE <<>>

Routing(task_) ==
    LET routing == DictGet(task_, "routing", PyNone) IN
    IF routing.t = "none" THEN <<>>
    ELSE IF routing.t # "dict"
    THEN <<Violation("not_mapping", "routing", -1, "", 0, 0)>>
    ELSE (IF ~HasKey(routing, "playbook")
          THEN <<Violation("routing_missing", "routing", -1, "playbook", 0, 0)>>
          ELSE <<>>)
         \o (IF ~HasKey(routing, "contracts")
             THEN <<Violation("routing_missing", "routing", -1, "contracts", 0, 0)>>
             ELSE IF ~_is_list_of_str(routing.d["contracts"])
             THEN <<Violation("not_list_of_str", "routing", -1, "contracts", 0, 0)>>
             ELSE <<>>)

validate_task(task_, contract_) ==
    MissingRequired(task_, DictGet(contract_, "required_fields", PyList(<<>>)))
    \o ContextLength(task_)
    \o InputsOutputs(task_)
    \o AcceptanceCriteria(task_)
    \o Routing(task_)

validate_task_raises(task_, contract_) ==
    \/ NoGet(contract_)
    \/ RequiredLoopRaises(DictGet(contract_, "required_fields", PyList(<<>>)))

-----------------------------------------------------------------------------
(* Values of the variables a specification does not use *)

NoTask == [task_id |-> <<>>, title |-> <<>>, goal |-> <<>>, acceptance_criteria |-> <<>>]

BranchIdle == task = NoTask /\ issue_data = NoIssue /\ branch_name = <<>> /\ commit_msg = <<>>
\* no invocation is inside _update_ledger
NoWriters == <<>>
LedgerIdle == ledger = [exists |-> FALSE, kind |-> "empty", version |-> 2, tasks |-> <<>>]
              /\ merges = <<>> /\ writers = NoWriters
LinkageIdle == task_ids = {} /\ report_ids = {} /\ ledger_ids = {}
ReportIdle == report = EmptyDict /\ contract = EmptyDict
BatchIdle == validator = "none" /\ doc_files = <<>> /\ file_no = 0 /\ scan = "idle"
NoOrigin == [ok |-> FALSE, stdout |-> <<>>]
ResolverIdle == repo_env = <<>> /\ origin = NoOrigin /\ resolved = FALSE
ValidatorIdle == errors = <<>> /\ rc = -1
NoArgs == [task_id |-> <<>>, skip_pr |-> FALSE, ci_mode |-> FALSE]
NoBranches == [local |-> {}, remote |-> {}]
\* nothing was read from the terminal
NoInput == [choice |-> "unread", token |-> "unread"]

RunIdle ==
    /\ pc = "idle" /\ issues = <<>> /\ run_no = 0 /\ existing = NoIssue
    /\ args = NoArgs /\ repo = <<>> /\ auth = "none" /\ pr_data = NoIssue
    /\ calls = <<>> /\ typed = NoInput /\ branches = NoBranches /\ runs = <<>>

-----------------------------------------------------------------------------
(* SpecBranch: _generate_branch_name and _generate_commit_message applied   *)
(* to every task of the model                                              *)

IssueNumbers == {0, 12}
notBranchVars == <<ledgerVars, linkageVars, reportVars, batchVars, resolverVars, runVars, errors, rc>>

InitBranch ==
    /\ task \in [task_id : TaskIdsOfModel, title : Titles, goal : {Goal},
                 acceptance_criteria : CriteriaLists]
    /\ issue_data = NoIssue
    /\ branch_name = <<>>
    /\ commit_msg = <<>>
    /\ LedgerIdle /\ LinkageIdle /\ ReportIdle /\ BatchIdle /\ ResolverIdle /\ ValidatorIdle /\ RunIdle

GenerateBranchName ==
    /\ branch_name = <<>>
    /\ branch_name' = _generate_branch_name(task)
    /\ UNCHANGED <<task, issue_data, commit_msg>>

GenerateCommitMessage ==
    /\ branch_name # <<>>
    /\ commit_msg = <<>>
    /\ \E n \in IssueNumbers :
          /\ issue_data' = (IF n = 0 THEN NoIssue ELSE Ref("issues", n))
          /\ commit_msg' = _generate_commit_message(task, issue_data')
    /\ UNCHANGED <<task, branch_name>>

NextBranch ==
    \/ GenerateBranchName /\ UNCHANGED notBranchVars
    \/ GenerateCommitMessage /\ UNCHANGED notBranchVars

SpecBranch == InitBranch /\ [][NextBranch]_vars

-----------------------------------------------------------------------------
(* SpecLedger: a sequence of _update_ledger calls on an initial ledger file *)

MaxMerges == 2          \* number of _update_ledger calls
MaxLedgerEntries == 2   \* number of items of the initial ledger's tasks list

RunTaskIds == {<<"T", "1">>, <<"T", "1", "0">>}
Dates == {"2026-11-05", "2026-11-06"}
IssueRefs == {NoIssue, Ref("issues", 5)}
PrRefs == {NoIssue, Ref("pull", 7), Ref("pull", 8)}

\* items an initial ledger is made of: an entry in progress with a field of
\* its own, an item that is no mapping, a completed entry with a PR, and a
\* mapping without id
CandidateItems ==
    << [id |-> <<"T", "1">>, status |-> "in_progress", notes |-> "kept"],
       [scalar |-> "T1"],
       [id |-> <<"T", "1", "0">>, status |-> "completed",
        github |-> [issue_url |-> Url("issues", 3), issue_number |-> 3,
                    branch |-> S_feature \o <<"T", "1", "0">>,
                    pr_url |-> Url("pull", 4), pr_number |-> 4],
        completed |-> "2026-11-01"],
       [status |-> "pending"] >>

SortedSeq(S) ==
    CHOOSE f \in [1..Cardinality(S) -> S] :
        \A i, j \in 1..Cardinality(S) : i < j => f[i] < f[j]
InitialTaskLists ==
    {[i \in 1..Cardinality(S) |-> CandidateItems[SortedSeq(S)[i]]] :
        S \in {S \in SUBSET DOMAIN CandidateItems : Cardinality(S) <= MaxLedgerEntries}}
InitialLedgers ==
    {[exists |-> FALSE, kind |-> "empty", version |-> 2, tasks |-> <<>>]}
    \cup {[exists |-> TRUE, kind |-> k, version |-> 2, tasks |-> <<>>] :
            k \in {"empty", "unparsable", "nonmapping"}}
    \cup {[exists |-> TRUE, kind |-> "mapping", version |-> v, tasks |-> t] :
            v \in {1, 2}, t \in InitialTaskLists}

InitLedger ==
    /\ ledger \in InitialLedgers
    /\ merges = <<>> /\ writers = NoWriters
    /\ BranchIdle /\ LinkageIdle /\ ReportIdle /\ BatchIdle /\ ResolverIdle /\ ValidatorIdle /\ RunIdle

notLedgerVars == <<branchVars, linkageVars, reportVars, batchVars, resolverVars, runVars, errors>>

UpdateLedger(task_id, idata, prdata, date) ==
    /\ Len(merges) < MaxMerges
    /\ ~LedgerRaises(ledger)
    /\ ledger' = _update_ledger(ledger, task_id, idata, prdata, date)
    /\ merges' = Append(merges, [task_id |-> task_id, pr |-> prdata])
    /\ UNCHANGED <<rc, writers>>

\* the document is no mapping: the exception leaves _update_ledger before the
\* file is opened for writing
UpdateLedgerRaises ==
    /\ rc = -1
    /\ LedgerRaises(ledger)
    /\ rc' = 1
    /\ UNCHANGED <<ledger, merges, writers>>

NextLedger ==
    \/ \E task_id \in RunTaskIds, idata \in IssueRefs, prdata \in PrRefs, date \in Dates :
          UpdateLedger(task_id, idata, prdata, date) /\ UNCHANGED notLedgerVars
    \/ UpdateLedgerRaises /\ UNCHANGED notLedgerVars

SpecLedger == InitLedger /\ [][NextLedger]_vars

-----------------------------------------------------------------------------
(* SpecRace: concurrent invocations of _update_ledger on one ledger file.   *)
(* Each invocation loads the file, then opens it for writing, which         *)
(* truncates it, then dumps its document; nothing orders the steps of one   *)
(* invocation against those of another.                                     *)

MaxWriters == 2         \* number of concurrent invocations

Writers == 1..MaxWriters
\* what open(LEDGER_PATH, "w") leaves until the dump: an empty file
TruncatedFile == [exists |-> TRUE, kind |-> "empty", version |-> 2, tasks |-> <<>>]
RaceLedgers ==
    {[exists |-> FALSE, kind |-> "empty", version |-> 2, tasks |-> <<>>],
     [exists |-> TRUE, kind |-> "nonmapping", version |-> 2, tasks |-> <<>>],
     [exists |-> TRUE, kind |-> "mapping", version |-> 2, tasks |-> <<>>],
     [exists |-> TRUE, kind |-> "mapping", version |-> 2, tasks |-> <<CandidateItems[1]>>],
     [exists |-> TRUE, kind |-> "mapping", version |-> 2, tasks |-> <<CandidateItems[3]>>]}
RaceDate == "2026-11-06"

InitRace ==
    /\ ledger \in RaceLedgers
    /\ merges = <<>>
    /\ writers \in [Writers -> [pc : {"start"}, task_id : RunTaskIds,
                                seen : {TruncatedFile}]]
    /\ BranchIdle /\ LinkageIdle /\ ReportIdle /\ BatchIdle /\ ResolverIdle /\ ValidatorIdle /\ RunIdle

\* the file invocation w writes back: the merge into what it loaded
Rewritten(w) ==
    _update_ledger(writers[w].seen, writers[w].task_id, Ref("issues", w), NoIssue, RaceDate)

\* with open(LEDGER_PATH) as f: ledger = yaml.safe_load(f) or ledger, and the
\* search of the entry, which raises on a document that is no mapping
LoadFile(w) ==
    /\ writers[w].pc = "start"
    /\ writers' = [writers EXCEPT ![w].seen = ledger,
                                  ![w].pc = IF LedgerRaises(ledger) THEN "raised"
                                            ELSE "loaded"]
    /\ UNCHANGED <<ledger, merges, rc>>

\* open(LEDGER_PATH, "w")
OpenForWriting(w) ==
    /\ writers[w].pc = "loaded"
    /\ ledger' = TruncatedFile
    /\ writers' = [writers EXCEPT ![w].pc = "open"]
    /\ UNCHANGED <<merges, rc>>

DumpFile_MergesIntoFile(w) ==
    /\ writers[w].pc = "open"
    /\ ledger' = _update_ledger(ledger, writers[w].task_id, Ref("issues", w), NoIssue,
                                RaceDate)
    /\ writers' = [writers EXCEPT ![w].pc = "done"]
    /\ UNCHANGED <<merges, rc>>

\* yaml.dump(ledger, f, ...): the document of this invocation replaces the
\* content of the file
DumpFile(w) ==
    /\ writers[w].pc = "open"
    /\ ledger' = Rewritten(w)
    /\ writers' = [writers EXCEPT ![w].pc = "done"]
    /\ UNCHANGED <<merges, rc>>

NextRace ==
    \/ \E w \in Writers : LoadFile(w) /\ UNCHANGED notLedgerVars
    \/ \E w \in Writers : OpenForWriting(w) /\ UNCHANGED notLedgerVars
    \/ \E w \in Writers : DumpFile(w) /\ UNCHANGED notLedgerVars

SpecRace == InitRace /\ [][NextRace]_vars

-----------------------------------------------------------------------------
(* SpecLinkage: the linkage validator run on every choice of the three     *)
(* id sets                                                                 *)

MaxLinkIds == 4         \* the ids are the first MaxLinkIds of LinkIdList

LinkIdList == << <<"A">>, <<"B">>, <<"C">>, <<"A", "1">>, <<"T", "1", "0">>, <<"T", "2">> >>
LinkIds == {LinkIdList[i] : i \in 1..Min(MaxLinkIds, Len(LinkIdList))}

InitLinkage ==
    /\ task_ids \in SUBSET LinkIds
    /\ report_ids \in SUBSET LinkIds
    /\ ledger_ids \in SUBSET LinkIds
    /\ errors = <<>>
    /\ rc = -1
    /\ BranchIdle /\ LedgerIdle /\ ReportIdle /\ BatchIdle /\ ResolverIdle /\ RunIdle

LinkageMain ==
    /\ rc = -1
    /\ errors' = LinkageErrors(task_ids, report_ids, ledger_ids)
    /\ rc' = (IF errors' # <<>> THEN 1 ELSE 0)
    /\ UNCHANGED <<linkageVars, branchVars, ledgerVars, reportVars, batchVars, resolverVars, runVars>>

NextLinkage == LinkageMain

SpecLinkage == InitLinkage /\ [][NextLinkage]_vars

-----------------------------------------------------------------------------
(* SpecReport: validate_report applied to the reports that differ from a   *)
(* valid report in at most MaxDefects fields, under each contract          *)

MaxDefects == 2         \* number of fields in which a report differs from ValidReport
MaxSummaryLines == 7    \* a summary has at most this many lines

Absent == [t |-> "absent"]
Lines(n) == PyList([i \in 1..n |-> PyStr("line")])
GoodItem == PyDict([criterion |-> PyStr("builds"), passed |-> PyBool(TRUE)])
GoodFile == PyDict([path |-> PyStr("a.py"), description |-> PyStr("edited")])

ValidReport ==
    PyDict([status |-> PyStr("success"),
            summary |-> Lines(2),
            acceptance_criteria_results |-> PyList(<<GoodItem>>),
            files_modified |-> PyList(<<GoodFile>>),
            verification |-> PyDict([commands_run |-> PyList(<<PyStr("make test")>>),
                                     results |-> PyList(<<PyStr("ok")>>)])])

ReportFields == <<"status", "summary", "acceptance_criteria_results", "files_modified",
                  "verification", "risks", "next_steps">>

FieldOptions(f) ==
    CASE f = "status" -> {Absent, PyStr("bogus")}
      [] f = "summary" ->
            {Absent, PyStr("one line"), PyList(<<PyInt(1)>>)}
            \cup {Lines(n) : n \in 0..MaxSummaryLines}
      [] f = "acceptance_criteria_results" ->
            {Absent, PyStr("all"), PyList(<<>>), PyList(<<PyStr("all")>>),
             PyList(<<GoodItem, PyDict([criterion |-> PyStr("lints")])>>),
             PyList(<<PyDict([criterion |-> PyStr("lints"), passed |-> PyStr("yes")])>>)}
      [] f = "files_modified" ->
            {Absent, PyStr("a.py"), PyList(<<>>), PyList(<<PyDict([path |-> PyStr("a.py")])>>)}
      [] f = "verification" ->
            {Absent, PyList(<<>>), EmptyDict,
             PyDict([commands_run |-> PyStr("make test"), results |-> PyList(<<>>)])}
      [] f = "risks" -> {PyList(<<PyStr("none")>>), PyStr("none")}
      [] f = "next_steps" -> {PyList(<<>>), PyList(<<PyInt(1)>>)}

\* the mapping x with key f set to value o, or without key f if o is Absent
WithField(x, f, o) ==
    IF o = Absent
    THEN PyDict([k \in DOMAIN x.d \ {f} |-> x.d[k]])
    ELSE PyDict([k \in DOMAIN x.d \cup {f} |-> IF k = f THEN o ELSE x.d[k]])

RECURSIVE Variants(_, _, _)
Variants(x, i, budget) ==
    IF i > Len(ReportFields) THEN {x}
    ELSE Variants(x, i + 1, budget)
         \cup (IF budget = 0 THEN {}
               ELSE UNION {Variants(WithField(x, ReportFields[i], o), i + 1, budget - 1) :
                              o \in FieldOptions(ReportFields[i])})

ReportsOfModel == Variants(ValidReport, 1, MaxDefects)

StrList(ss) == PyList([i \in DOMAIN ss |-> PyStr(ss[i])])
FixedContract ==
    PyDict([acceptance_criteria_results_item |->
                PyDict([required_fields |-> StrList(<<"criterion", "passed">>)]),
            verification |->
                PyDict([required_fields |-> StrList(<<"commands_run", "results">>)])])
ContractsOfModel ==
    {WithField(WithField(WithField(FixedContract, "required_fields", rf),
                         "constraints", cs), "enums", en) :
        rf \in {Absent, StrList(<<>>), StrList(<<"acceptance_criteria_results">>),
                StrList(<<"status", "reviewer">>),
                StrList(<<"status", "summary", "acceptance_criteria_results",
                          "files_modified", "verification">>)},
        cs \in {Absent, EmptyDict} \cup
               {PyDict([summary_max_lines |-> PyInt(m)]) : m \in {0, 3, 7}},
        en \in {Absent,
                PyDict([status |-> StrList(<<"success", "partial", "failed">>)])}}

InitReport ==
    /\ report \in ReportsOfModel
    /\ contract \in ContractsOfModel
    /\ errors = <<>>
    /\ rc = -1
    /\ BranchIdle /\ LedgerIdle /\ LinkageIdle /\ RunIdle /\ BatchIdle /\ ResolverIdle

\* main for one report file whose top level is a mapping
ValidateReport ==
    /\ rc = -1
    /\ errors' = validate_report(report, contract)
    /\ rc' = (IF errors' # <<>> THEN 1 ELSE 0)
    /\ UNCHANGED <<reportVars, batchVars, resolverVars, branchVars, ledgerVars, linkageVars, runVars>>

NextReport == ValidateReport

SpecReport == InitReport /\ [][NextReport]_vars

-----------------------------------------------------------------------------
(* SpecBatch: main of validate_agent_task.py and of validate_agent_report.py *)
(* on a file or a directory of at most MaxBatch documents, under contracts   *)
(* that are well formed, malformed, empty, unparsable or missing             *)

MaxBatch == 3           \* a target holds at most this many documents

Unparsable == [t |-> "unparsable"]      \* yaml.safe_load raises on the file

ReportContract ==
    WithField(WithField(FixedContract, "required_fields",
                        StrList(<<"status", "summary", "acceptance_criteria_results",
                                  "files_modified", "verification">>)),
              "enums", PyDict([status |-> StrList(<<"success", "partial", "failed">>)]))
TaskContract ==
    PyDict([required_fields |-> StrList(<<"id", "title", "acceptance_criteria">>)])

ValidTask ==
    PyDict([id |-> PyStr("T1"), title |-> PyStr("Fix login bug"),
            context |-> PyStr(<<"a", "\n", "b">>),
            acceptance_criteria |-> StrList(<<"builds">>),
            routing |-> PyDict([playbook |-> PyStr("dev"),
                                contracts |-> StrList(<<"task">>)])])
LongContext == PyStr([i \in 1..(2 * ContextLimit + 1) |-> IF i % 2 = 1 THEN "a" ELSE "\n"])

\* values a contract file can hold in place of a well-formed section
Malformed(c) ==
    {WithField(c, "required_fields", PyNone),
     WithField(c, "required_fields", PyList(<<PyList(<<PyStr("status")>>)>>)),
     WithField(c, "enums", PyNone),
     WithField(c, "enums", PyDict([status |-> PyNone])),
     WithField(c, "constraints", PyNone),
     WithField(c, "constraints", PyDict([summary_max_lines |-> PyNone])),
     WithField(c, "acceptance_criteria_results_item", PyNone),
     WithField(c, "verification", PyDict([required_fields |-> PyNone]))}

BatchContracts(v) ==
    LET c == IF v = "task" THEN TaskContract ELSE ReportContract
    IN  {c, EmptyDict, Absent, Unparsable, PyNone} \cup Malformed(c)

\* what load_yaml gives for a document file
BatchDocuments(v) ==
    {Unparsable, PyNone, PyList(<<PyStr("status")>>)}
    \cup (IF v = "task"
          THEN {ValidTask,
                WithField(ValidTask, "title", Absent),
                WithField(WithField(ValidTask, "context", LongContext),
                          "routing", PyStr("dev"))}
          ELSE {ValidReport,
                WithField(ValidReport, "status", PyStr("bogus")),
                WithField(WithField(ValidReport, "summary", Lines(MaxSummaryLines)),
                          "verification", Absent)})

InitBatch ==
    /\ validator \in {"task", "report"}
    /\ contract \in BatchContracts(validator)
    /\ doc_files \in UNION {[1..n -> BatchDocuments(validator)] : n \in 0..MaxBatch}
    /\ file_no = 0
    /\ scan = "start"
    /\ report = EmptyDict
    /\ errors = <<>>
    /\ rc = -1
    /\ BranchIdle /\ LedgerIdle /\ LinkageIdle /\ RunIdle /\ ResolverIdle

notBatchVars == <<branchVars, ledgerVars, linkageVars, runVars, resolverVars, report,
                  contract, validator, doc_files>>

\* all_errors entries: f"{path}: {message}"
At(path, e) == [file |-> path, error |-> e]
ParseFailure == Violation("parse_failure", "", -1, "", 0, 0)
NotAMapping == Violation("top_level_not_mapping", "", -1, "", 0, 0)

\* main up to the loop: the checks that return _fail, and the contract load
MainStart ==
    /\ scan = "start"
    /\ \E argc \in 1..3, target_exists \in BOOLEAN :
          IF contract = Absent \/ argc # 2 \/ ~target_exists
          THEN rc' = 1 /\ scan' = "failed"
          ELSE IF contract = Unparsable
          THEN rc' = 1 /\ scan' = "raised"
          ELSE IF validator = "task" /\ contract.t # "dict"
          THEN rc' = 1 /\ scan' = "failed"
          ELSE rc' = rc /\ scan' = "loop"
    /\ UNCHANGED <<notBatchVars, file_no, errors>>

\* one iteration of the loop over the documents
ValidateFile ==
    /\ scan = "loop" /\ file_no < Len(doc_files)
    /\ LET path == file_no + 1
           data == doc_files[path]
           raises == IF validator = "task" THEN validate_task_raises(data, contract)
                     ELSE validate_report_raises(data, contract)
           errs == IF validator = "task" THEN validate_task(data, contract)
                   ELSE validate_report(data, contract)
       IN  IF data = Unparsable
           THEN errors' = Append(errors, At(path, ParseFailure))
                /\ file_no' = path /\ UNCHANGED <<scan, rc>>
           ELSE IF data.t # "dict"
           THEN errors' = Append(errors, At(path, NotAMapping))
                /\ file_no' = path /\ UNCHANGED <<scan, rc>>
           ELSE IF raises
           THEN scan' = "raised" /\ rc' = 1 /\ UNCHANGED <<errors, file_no>>
           ELSE errors' = errors \o [i \in DOMAIN errs |-> At(path, errs[i])]
                /\ file_no' = path /\ UNCHANGED <<scan, rc>>
    /\ UNCHANGED notBatchVars

\* after the loop: return 1 if all_errors else 0
MainReturn ==
    /\ scan = "loop" /\ file_no = Len(doc_files)
    /\ rc' = (IF errors # <<>> THEN 1 ELSE 0)
    /\ scan' = "exit"
    /\ UNCHANGED <<notBatchVars, file_no, errors>>

NextBatch == MainStart \/ ValidateFile \/ MainReturn

SpecBatch == InitBatch /\ [][NextBatch]_vars

-----------------------------------------------------------------------------
(* SpecResolver: _detect_repository on the origins a clone of a GitHub      *)
(* repository can have, with and without GITHUB_REPOSITORY                 *)

S_https_prefix == <<"h", "t", "t", "p", "s", ":", "/", "/", "g", "i", "t", "h", "u", "b", ".", "c", "o", "m", "/">>
Owners == {<<"o">>, <<"a", "c", "m", "e">>}
RepoNames == {<<"r">>, <<"a", "p", "i">>, <<".", "g", "i", "t", "h", "u", "b">>, <<"r", ".", "g", "i", "t", "h", "u", "b", ".", "i", "o">>}
OverrideRepos == {<<>>, <<"o", "/", "r">>, <<"f", "o", "r", "k", "/", "a", "p", "i">>}

\* git@github.com:owner/repo or https://github.com/owner/repo, with .git or not
RemoteUrl(form, owner, name, dot_git) ==
    (IF form = "ssh" THEN S_git_at ELSE S_https_prefix)
    \o owner \o <<"/">> \o name \o (IF dot_git THEN S_dot_git ELSE <<>>)

\* remotes of other forms: ssh://git@github.com/o/r.git, a mirror
\* https://git.example/github.com/o/r, and git@github.com.example:o/r
OtherRemotes ==
    {<<"s", "s", "h", ":", "/", "/">> \o <<"g", "i", "t", "@">> \o S_github_com_slash
        \o <<"o", "/", "r">> \o S_dot_git,
     <<"h", "t", "t", "p", "s", ":", "/", "/", "g", "i", "t", ".", "e", "x", "a", "m", "p", "l", "e", "/">>
        \o S_github_com_slash \o <<"o", "/", "r">>,
     <<"g", "i", "t", "@">> \o S_github_com \o <<".", "e", "x", "a", "m", "p", "l", "e", ":", "o", "/", "r">>}

ResolverOrigins ==
    {[ok |-> TRUE, stdout |-> RemoteUrl(form, owner, name, dot_git) \o <<"\n">>] :
        form \in {"ssh", "https"}, owner \in Owners, name \in RepoNames,
        dot_git \in BOOLEAN}
    \cup {[ok |-> TRUE, stdout |-> <<"h", "t", "t", "p", "s", ":", "/", "/", "g", "i", "t", "l", "a", "b", ".", "c", "o", "m", "/", "o", "/", "r", ".", "g", "i", "t">> \o <<"\n">>],
          NoOrigin}
    \cup {[ok |-> TRUE, stdout |-> url \o <<"\n">>] : url \in OtherRemotes}

InitResolver ==
    /\ repo_env \in OverrideRepos
    /\ origin \in ResolverOrigins
    /\ resolved = FALSE
    /\ BranchIdle /\ LedgerIdle /\ LinkageIdle /\ ReportIdle /\ BatchIdle
    /\ ValidatorIdle /\ RunIdle

\* self.repo = self._detect_repository()
Resolve ==
    /\ ~resolved
    /\ repo' = _detect_repository(repo_env, origin)
    /\ resolved' = TRUE
    /\ UNCHANGED <<branchVars, ledgerVars, linkageVars, reportVars, batchVars,
                   repo_env, origin, errors, rc, pc, issues, run_no, existing, args,
                   auth, pr_data, calls, typed, branches, runs>>

NextResolver == Resolve

SpecResolver == InitResolver /\ [][NextResolver]_vars

-----------------------------------------------------------------------------
(* Spec: runs of GitHubIntegrator.run, one after the other, on one clone   *)
(* and one remote repository.  Every command of a run succeeds or fails as *)
(* its environment decides.                                                *)

MaxRuns == 2            \* number of runs

\* the task documents of the clone: T1 and T10 have one, T2 has none; T1
\* has a report as well
RunArgIds == RunTaskIds \cup {<<"T", "2">>}
TaskFiles ==
    [id \in RunArgIds |->
        IF id = <<"T", "1">>
        THEN [exists |-> TRUE, title |-> Tok1, goal |-> Goal,
              acceptance_criteria |-> <<Criterion(1), Criterion(2)>>]
        ELSE IF id = <<"T", "1", "0">>
        THEN [exists |-> TRUE, title |-> Tok2, goal |-> Goal,
              acceptance_criteria |-> <<>>]
        ELSE [exists |-> FALSE, title |-> <<>>, goal |-> <<>>,
              acceptance_criteria |-> <<>>]]
ReportFiles == {<<"T", "1">>}

_load_task(task_id) ==
    IF TaskFiles[task_id].exists
    THEN [task_id |-> task_id, title |-> TaskFiles[task_id].title,
          goal |-> TaskFiles[task_id].goal,
          acceptance_criteria |-> TaskFiles[task_id].acceptance_criteria]
    ELSE NoTask
_load_report(task_id) == task_id \in ReportFiles

\* GITHUB_REPOSITORY and the output of `git remote get-url origin`
RepoEnvs == {<<>>, <<"o", "/", "r">>}
Remotes ==
    { [ok |-> TRUE, stdout |-> <<"g", "i", "t", "@", "g", "i", "t", "h", "u", "b", ".", "c", "o", "m", ":", "o", "/", "r", ".", "g", "i", "t", "\n">>],
      [ok |-> TRUE, stdout |-> <<"h", "t", "t", "p", "s", ":", "/", "/", "g", "i", "t", "h", "u", "b", ".", "c", "o", "m", "/", "o", "/", "r", "\n">>],
      [ok |-> TRUE, stdout |-> <<"h", "t", "t", "p", "s", ":", "/", "/", "g", "i", "t", "l", "a", "b", ".", "c", "o", "m", "/", "o", "/", "r", ".", "g", "i", "t", "\n">>],
      [ok |-> FALSE, stdout |-> <<>>] }

RunDate == "2026-11-05"
InitialRunLedgers ==
    { [exists |-> FALSE, kind |-> "empty", version |-> 2, tasks |-> <<>>],
      [exists |-> TRUE, kind |-> "unparsable", version |-> 2, tasks |-> <<>>],
      [exists |-> TRUE, kind |-> "nonmapping", version |-> 2, tasks |-> <<>>] }

notRunVars == <<merges, writers, linkageVars, reportVars, batchVars, resolverVars, errors>>

Init ==
    /\ BranchIdle /\ LinkageIdle /\ ReportIdle /\ BatchIdle /\ ResolverIdle /\ ValidatorIdle
    /\ ledger \in InitialRunLedgers
    /\ merges = <<>> /\ writers = NoWriters
    /\ pc = "idle" /\ issues = <<>> /\ run_no = 0 /\ existing = NoIssue
    /\ args = NoArgs /\ repo = <<>> /\ auth = "none" /\ pr_data = NoIssue
    /\ calls = <<>> /\ typed = NoInput /\ branches = NoBranches /\ runs = <<>>

Log(cmd, ok) == Append(calls, [cmd |-> cmd, ok |-> ok])

\* run() returns code
Return(code) ==
    /\ rc' = code
    /\ pc' = "exit"
    /\ runs' = [runs EXCEPT ![Len(runs)].rc = code]
\* an exception leaves run(): the interpreter prints it and exits 1
Raise ==
    /\ rc' = 1
    /\ pc' = "raised"
    /\ runs' = [runs EXCEPT ![Len(runs)].rc = 1, ![Len(runs)].raised = TRUE]
Continue(next) ==
    /\ pc' = next
    /\ UNCHANGED <<rc, runs>>

\* main, and run() down to the loading of the task and the report
StartRun(task_id, skip_pr, ci_mode) ==
    /\ pc \in {"idle", "exit", "raised"}
    /\ run_no < MaxRuns
    /\ run_no' = run_no + 1
    /\ args' = [task_id |-> task_id, skip_pr |-> skip_pr, ci_mode |-> ci_mode]
    /\ task' = _load_task(task_id)
    /\ repo' = <<>> /\ auth' = "none" /\ existing' = NoIssue /\ issue_data' = NoIssue
    /\ branch_name' = <<>> /\ commit_msg' = <<>> /\ pr_data' = NoIssue /\ calls' = <<>>
    /\ rc' = (IF task' = NoTask THEN 1 ELSE -1)
    /\ pc' = (IF task' = NoTask THEN "exit" ELSE "detect")
    /\ runs' = Append(runs, [task_id |-> task_id,
                             before |-> Cardinality(Matching(issues, task_id)),
                             rc |-> rc', raised |-> FALSE])
    /\ UNCHANGED <<issues, ledger, branches>>
    /\ typed' = NoInput

DetectRepository_GoesOn ==
    /\ pc = "detect"
    /\ \E env \in RepoEnvs, remote \in Remotes :
          repo' = _detect_repository(env, remote)
    /\ Continue("auth")
    /\ UNCHANGED <<typed, task, issue_data, branch_name, commit_msg, ledger, issues, run_no,
                   existing, args, auth, pr_data, calls, branches>>

\* self.repo = self._detect_repository()
DetectRepository ==
    /\ pc = "detect"
    /\ \E env \in RepoEnvs, remote \in Remotes :
          repo' = _detect_repository(env, remote)
    /\ IF repo' = <<>> THEN Return(1) ELSE Continue("auth")
    /\ UNCHANGED <<typed, task, issue_data, branch_name, commit_msg, ledger, issues, run_no,
                   existing, args, auth, pr_data, calls, branches>>

\* self.auth = self._ensure_auth(), up to the interactive prompt
EnsureAuth ==
    /\ pc = "auth"
    /\ \E gh \in {"ok", "unauthenticated", "absent"}, token \in {"", "tok"} :
          LET m == _ensure_auth(gh, token, args.ci_mode) IN
          /\ auth' = (IF m = "prompt" THEN "none" ELSE m)
          /\ IF m = "prompt" THEN Continue("prompt")
             ELSE IF m = "none" THEN Return(1)
             ELSE Continue("find")
    /\ UNCHANGED <<typed, task, issue_data, branch_name, commit_msg, ledger, issues, run_no,
                   existing, args, repo, pr_data, calls, branches>>

\* _prompt_for_auth: the token, if one is accepted, is appended to .env.local
PromptForAuth ==
    /\ pc = "prompt"
    /\ \E choice \in {"1", "2", "3", "x", "EOF"}, token \in {"", "tok", "EOF"} :
          LET m == _prompt_for_auth(choice, token) IN
          /\ auth' = m
          /\ typed' = [choice |-> choice,
                       token |-> IF choice = "2" THEN token ELSE "unread"]
          /\ calls' = (IF m = "token"
                       THEN Append(Log("prompt", TRUE),
                                   [cmd |-> "write .env.local", ok |-> TRUE])
                       ELSE Log("prompt", TRUE))
          /\ IF m = "none" THEN Return(1) ELSE Continue("find")
    /\ UNCHANGED <<task, issue_data, branch_name, commit_msg, ledger, issues, run_no,
                   existing, args, repo, pr_data, branches>>

\* existing = self._find_existing_issue(task.task_id): a failed search is
\* caught and reported as no issue; of the listed issues the first whose
\* title contains the id is returned, the order of the listing being the
\* server's
FindExistingIssue ==
    /\ pc = "find"
    /\ \E ok \in BOOLEAN :
          /\ calls' = Log("issue list", ok)
          /\ IF ok /\ Matching(issues, task.task_id) # {}
             THEN \E i \in Matching(issues, task.task_id) :
                     existing' = Ref("issues", issues[i].number)
             ELSE existing' = NoIssue
    /\ Continue("issue")
    /\ UNCHANGED <<typed, task, issue_data, branch_name, commit_msg, ledger, issues, run_no,
                   args, repo, auth, pr_data, branches>>

UpdateIssue_Retitles ==
    /\ pc = "issue"
    /\ existing # NoIssue
    /\ \E ok \in BOOLEAN :
          /\ calls' = Log("issue edit", ok)
          /\ IF ok
             THEN /\ issues' = [issues EXCEPT
                                   ![existing.number].body =
                                       IssueBody(task, _load_report(args.task_id)),
                                   ![existing.number].title = IssueTitle(task)]
                  /\ issue_data' = Ref("issues", existing.number)
             ELSE /\ issue_data' = NoIssue
                  /\ UNCHANGED issues
    /\ Continue("stage")
    /\ UNCHANGED <<typed, task, branch_name, commit_msg, ledger, run_no, existing, args, repo,
                   auth, pr_data, branches>>

\* return self._update_issue(existing["number"], body), and the null
\* reference run() puts in place of None
UpdateIssue ==
    /\ pc = "issue"
    /\ existing # NoIssue
    /\ \E ok \in BOOLEAN :
          /\ calls' = Log("issue edit", ok)
          /\ IF ok
             THEN /\ issues' = [issues EXCEPT ![existing.number].body =
                                   IssueBody(task, _load_report(args.task_id))]
                  /\ issue_data' = Ref("issues", existing.number)
             ELSE /\ issue_data' = NoIssue
                  /\ UNCHANGED issues
    /\ Continue("stage")
    /\ UNCHANGED <<typed, task, branch_name, commit_msg, ledger, run_no, existing, args, repo,
                   auth, pr_data, branches>>

\* return self._create_issue(issue_title, body), and the null reference
\* run() puts in place of None
CreateIssue ==
    /\ pc = "issue"
    /\ existing = NoIssue
    /\ \E ok \in BOOLEAN :
          /\ calls' = Log("issue create", ok)
          /\ IF ok
             THEN /\ issues' = Append(issues,
                                   NewIssue(Len(issues) + 1, IssueTitle(task),
                                            IssueBody(task, _load_report(args.task_id))))
                  /\ issue_data' = Ref("issues", Len(issues) + 1)
             ELSE /\ issue_data' = NoIssue
                  /\ UNCHANGED issues
    /\ Continue("stage")
    /\ UNCHANGED <<typed, task, branch_name, commit_msg, ledger, run_no, existing, args, repo,
                   auth, pr_data, branches>>

\* self._update_ledger(task_id, issue_data, prdata); return code
LedgerAndReturn(prdata, code) ==
    IF LedgerRaises(ledger)
    THEN Raise /\ UNCHANGED <<ledger, calls>>
    ELSE /\ ledger' = _update_ledger(ledger, args.task_id, issue_data, prdata, RunDate)
         /\ calls' = Log("write ledger", TRUE)
         /\ Return(code)

\* if skip_pr: update the ledger and return 0
SkipPr ==
    /\ pc = "stage"
    /\ args.skip_pr
    /\ LedgerAndReturn(NoIssue, 0)
    /\ UNCHANGED <<typed, task, issue_data, branch_name, commit_msg, issues, run_no, existing,
                   args, repo, auth, pr_data, branches>>

\* _branch_exists: `git branch --list` prints the branch if the clone has it;
\* if not, `git ls-remote --heads origin` prints it if origin has it and the
\* command reaches origin.  Neither exit status is looked at: an ls-remote
\* that fails prints nothing and the branch counts as absent.
_branch_exists(name, ls_remote_ok) ==
    \/ name \in branches.local
    \/ ls_remote_ok /\ name \in branches.remote

\* _create_branch_and_pr down to the checkout; check=True lets a failed
\* checkout leave run() as CalledProcessError
CheckoutBranch ==
    /\ pc = "stage"
    /\ ~args.skip_pr
    /\ branch_name' = _generate_branch_name(task)
    /\ \E ok \in BOOLEAN, ls_remote_ok \in BOOLEAN :
          /\ calls' = Log(IF _branch_exists(branch_name', ls_remote_ok)
                          THEN "checkout" ELSE "checkout -b", ok)
          /\ IF ok
             THEN /\ branches' = [branches EXCEPT !.local = @ \cup {branch_name'}]
                  /\ Continue("commit")
             ELSE /\ UNCHANGED branches
                  /\ Raise
    /\ UNCHANGED <<typed, task, issue_data, commit_msg, ledger, issues, run_no, existing, args,
                   repo, auth, pr_data>>

\* if self._has_changes(): git add -A and git commit, both with check=True
CommitChanges ==
    /\ pc = "commit"
    /\ \E out \in {"clean", "ok", "add fails", "commit fails"} :
          /\ commit_msg' = (IF out = "clean" THEN commit_msg
                            ELSE _generate_commit_message(task, issue_data))
          /\ calls' = (CASE out = "clean" -> calls
                         [] out = "ok" ->
                               Append(Log("add", TRUE), [cmd |-> "commit", ok |-> TRUE])
                         [] out = "add fails" -> Log("add", FALSE)
                         [] out = "commit fails" ->
                               Append(Log("add", TRUE), [cmd |-> "commit", ok |-> FALSE]))
          /\ IF out \in {"clean", "ok"} THEN Continue("push") ELSE Raise
    /\ UNCHANGED <<typed, task, issue_data, branch_name, ledger, issues, run_no, existing, args,
                   repo, auth, pr_data, branches>>

Push_AlwaysForces ==
    /\ pc = "push"
    /\ \E ok \in BOOLEAN :
          /\ calls' = Log("push", ok)
          /\ branches' = (IF ok THEN [branches EXCEPT !.remote = @ \cup {branch_name}]
                          ELSE branches)
          /\ Continue("force")
    /\ UNCHANGED <<typed, task, issue_data, branch_name, commit_msg, ledger, issues, run_no,
                   existing, args, repo, auth, pr_data>>

\* git push -u origin branch_name
Push ==
    /\ pc = "push"
    /\ \E ok \in BOOLEAN :
          /\ calls' = Log("push", ok)
          /\ branches' = (IF ok THEN [branches EXCEPT !.remote = @ \cup {branch_name}]
                          ELSE branches)
          /\ Continue(IF ok THEN "pr_main" ELSE "force")
    /\ UNCHANGED <<typed, task, issue_data, branch_name, commit_msg, ledger, issues, run_no,
                   existing, args, repo, auth, pr_data>>

\* except CalledProcessError: git push -f -u origin branch_name, check=True
ForcePush ==
    /\ pc = "force"
    /\ \E ok \in BOOLEAN :
          /\ calls' = Log("push -f", ok)
          /\ IF ok
             THEN /\ branches' = [branches EXCEPT !.remote = @ \cup {branch_name}]
                  /\ Continue("pr_main")
             ELSE /\ UNCHANGED branches
                  /\ Raise
    /\ UNCHANGED <<typed, task, issue_data, branch_name, commit_msg, ledger, issues, run_no,
                   existing, args, repo, auth, pr_data>>

\* What the request that opens the pull request can do: "ok"; "fails", the
\* command exits with a status other than 0; "error reply", curl exits 0 with
\* the server's error document, which has no "number"
PrOutcomes == IF auth = "gh_cli" THEN {"ok", "fails"} ELSE {"ok", "fails", "error reply"}

\* _create_pr: the attempt against base main
CreatePrMain ==
    /\ pc = "pr_main"
    /\ \E out \in PrOutcomes :
          /\ calls' = Log("pr create main", out = "ok")
          /\ pr_data' = (IF out = "ok" THEN Ref("pull", run_no) ELSE NoIssue)
          /\ Continue(IF out = "fails" THEN "pr_master" ELSE "ledger")
    /\ UNCHANGED <<typed, task, issue_data, branch_name, commit_msg, ledger, issues, run_no,
                   existing, args, repo, auth, branches>>

\* _create_pr: the attempt against base master
CreatePrMaster ==
    /\ pc = "pr_master"
    /\ \E out \in PrOutcomes :
          /\ calls' = Log("pr create master", out = "ok")
          /\ pr_data' = (IF out = "ok" THEN Ref("pull", run_no) ELSE NoIssue)
          /\ Continue("ledger")
    /\ UNCHANGED <<typed, task, issue_data, branch_name, commit_msg, ledger, issues, run_no,
                   existing, args, repo, auth, branches>>

FinishRun_AlwaysZero ==
    /\ pc = "ledger"
    /\ LedgerAndReturn(pr_data, 0)
    /\ UNCHANGED <<typed, task, issue_data, branch_name, commit_msg, issues, run_no, existing,
                   args, repo, auth, pr_data, branches>>

\* run() after _create_branch_and_pr: update the ledger, return 1 if there is
\* no pull request and 0 if there is one
FinishRun ==
    /\ pc = "ledger"
    /\ LedgerAndReturn(pr_data, IF pr_data = NoIssue THEN 1 ELSE 0)
    /\ UNCHANGED <<typed, task, issue_data, branch_name, commit_msg, issues, run_no, existing,
                   args, repo, auth, pr_data, branches>>

Next ==
    \/ \E task_id \in RunArgIds, skip_pr \in BOOLEAN, ci_mode \in BOOLEAN :
          StartRun(task_id, skip_pr, ci_mode) /\ UNCHANGED notRunVars
    \/ DetectRepository /\ UNCHANGED notRunVars
    \/ EnsureAuth /\ UNCHANGED notRunVars
    \/ PromptForAuth /\ UNCHANGED notRunVars
    \/ FindExistingIssue /\ UNCHANGED notRunVars
    \/ UpdateIssue /\ UNCHANGED notRunVars
    \/ CreateIssue /\ UNCHANGED notRunVars
    \/ SkipPr /\ UNCHANGED notRunVars
    \/ CheckoutBranch /\ UNCHANGED notRunVars
    \/ CommitChanges /\ UNCHANGED notRunVars
    \/ Push /\ UNCHANGED notRunVars
    \/ ForcePush /\ UNCHANGED notRunVars
    \/ CreatePrMain /\ UNCHANGED notRunVars
    \/ CreatePrMaster /\ UNCHANGED notRunVars
    \/ FinishRun /\ UNCHANGED notRunVars

Spec == Init /\ [][Next]_vars

-----------------------------------------------------------------------------
(* SpecCheckout: _create_branch_and_pr down to the push, for a task whose  *)
(* issue stage is over, in a clone and with an origin that may already     *)
(* hold the branches of the tasks                                          *)

TaskBranches == {_generate_branch_name(_load_task(id)) : id \in RunTaskIds}

InitCheckout ==
    /\ LinkageIdle /\ ReportIdle /\ BatchIdle /\ ResolverIdle /\ ValidatorIdle
    /\ ledger \in InitialRunLedgers
    /\ merges = <<>> /\ writers = NoWriters
    /\ \E id \in RunTaskIds, ci_mode \in BOOLEAN :
          /\ task = _load_task(id)
          /\ args = [task_id |-> id, skip_pr |-> FALSE, ci_mode |-> ci_mode]
          /\ runs = <<[task_id |-> id, before |-> 0, rc |-> -1, raised |-> FALSE]>>
    /\ issues = <<>> /\ existing = NoIssue
    /\ issue_data \in {NoIssue, Ref("issues", 1)}
    /\ branch_name = <<>> /\ commit_msg = <<>>
    /\ pc = "stage" /\ run_no = 1
    /\ repo = <<"o", "/", "r">> /\ auth = "gh_cli" /\ pr_data = NoIssue
    /\ calls = <<>> /\ typed = NoInput
    /\ branches \in [local : SUBSET TaskBranches, remote : SUBSET TaskBranches]

NextCheckout ==
    \/ CheckoutBranch /\ UNCHANGED notRunVars
    \/ CommitChanges /\ UNCHANGED notRunVars
    \/ Push /\ UNCHANGED notRunVars
    \/ ForcePush /\ UNCHANGED notRunVars

SpecCheckout == InitCheckout /\ [][NextCheckout]_vars

-----------------------------------------------------------------------------
(* Claims about _generate_branch_name and _generate_commit_message         *)
(* (specification SpecBranch)                                              *)

HasHyphen(s) == \E i \in DOMAIN s : s[i] = "-"
BranchTruncated == branch_name # <<>> /\ Len(UntruncatedBranch(task)) > 50

\* C4: for every task id and every title, the branch name returned by
\* _generate_branch_name is at most 50 characters long.
C4_BranchAtMost50 == branch_name # <<>> => Len(branch_name) <= 50
C4_Witness == BranchTruncated /\ Len(branch_name) = 50

\* C5 as stated: for every task id and every title the branch name starts
\* with 'feature/<task_id>', also when the 50-character truncation applies.
C5_Original ==
    branch_name # <<>> => StartsWith(branch_name, S_feature \o task.task_id)
\* C5 as amended: the same, for task ids of at most 41 characters, and for
\* ids of exactly 42 characters that contain no hyphen.
C5_IdFits ==
    \/ Len(task.task_id) <= 41
    \/ Len(task.task_id) = 42 /\ ~HasHyphen(task.task_id)
C5_BranchStartsWithId ==
    (branch_name # <<>> /\ C5_IdFits)
        => StartsWith(branch_name, S_feature \o task.task_id)
C5_Witness ==
    /\ BranchTruncated
    /\ C5_IdFits
    /\ HasHyphen(task.task_id)
    /\ branch_name # UntruncatedBranch(task)

\* C10: the first line of the commit message begins with '<type>(<task_id>):',
\* the type being chosen from the lower-cased title by the first matching rule
\* of: 'fix' or 'bug' -> fix, 'test' -> test, 'doc' -> docs,
\* 'refactor' -> refactor, otherwise feat.
C10_Begins(ty) ==
    StartsWith(FirstLine(commit_msg), ty \o <<"(">> \o task.task_id \o <<")", ":">>)
C10_Has(kw) == Contains(kw, Lower(task.title))
C10_CommitTypePrefix ==
    commit_msg # <<>> =>
        /\ (C10_Has(S_fix) \/ C10_Has(S_bug)) => C10_Begins(S_fix)
        /\ (~C10_Has(S_fix) /\ ~C10_Has(S_bug) /\ C10_Has(S_test)) => C10_Begins(S_test)
        /\ (~C10_Has(S_fix) /\ ~C10_Has(S_bug) /\ ~C10_Has(S_test) /\ C10_Has(S_doc))
              => C10_Begins(S_docs)
        /\ (~C10_Has(S_fix) /\ ~C10_Has(S_bug) /\ ~C10_Has(S_test) /\ ~C10_Has(S_doc)
              /\ C10_Has(S_refactor)) => C10_Begins(S_refactor)
        /\ (~C10_Has(S_fix) /\ ~C10_Has(S_bug) /\ ~C10_Has(S_test) /\ ~C10_Has(S_doc)
              /\ ~C10_Has(S_refactor)) => C10_Begins(S_feat)
        /\ (task.task_id = IdPlain /\ task.title = Tok1)
              => StartsWith(commit_msg, <<"f", "i", "x", "(", "T", "0", "1", "0", ")", ":">>)
        /\ (task.task_id = IdPlain /\ task.title = Tok2)
              => StartsWith(commit_msg, <<"f", "e", "a", "t", "(", "T", "0", "1", "0", ")", ":">>)
C10_Witness ==
    /\ commit_msg # <<>>
    /\ C10_Has(S_test) /\ C10_Has(S_doc) /\ ~C10_Has(S_fix) /\ ~C10_Has(S_bug)
    /\ C10_Begins(S_test)

-----------------------------------------------------------------------------
(* Claims about _update_ledger (specification SpecLedger)                  *)

\* the entries a merge finds in the ledger file
EntriesOf(file) == IF file.exists /\ file.kind = "mapping" THEN file.tasks ELSE <<>>
HasId(item, id) == IsDict(item) /\ "id" \in DOMAIN item /\ item.id = id
IdCount(tasks, id) == Cardinality({i \in DOMAIN tasks : HasId(tasks[i], id)})
EntryOf(tasks, id) == tasks[CHOOSE i \in DOMAIN tasks : HasId(tasks[i], id)]
LastMergeOf(id) ==
    CHOOSE j \in DOMAIN merges :
        merges[j].task_id = id /\ \A k \in DOMAIN merges : merges[k].task_id = id => k <= j

\* C2: after any sequence of ledger merges applied to a ledger whose entries
\* have pairwise distinct ids, the ledger holds at most one entry per task id;
\* a merge for an id already present updates that entry in place and a merge
\* for an absent id appends exactly one entry.
C2_AtMostOne == \A id \in RunTaskIds : IdCount(EntriesOf(ledger), id) <= 1
C2_MergeStep ==
    merges' # merges =>
        LET id == merges'[Len(merges')].task_id
            before == EntriesOf(ledger)
            after == EntriesOf(ledger')
        IN  /\ IdCount(after, id) = 1
            /\ EntryOf(after, id).status = "completed"
            /\ IF IdCount(before, id) = 0
               THEN Len(after) = Len(before) + 1 /\ HasId(after[Len(after)], id)
               ELSE /\ Len(after) = Len(before)
                    /\ \A i \in DOMAIN before : HasId(before[i], id) <=> HasId(after[i], id)
C2_OneEntryPerId == []C2_AtMostOne /\ [][C2_MergeStep]_vars
C2_Witness ==
    /\ Len(merges) = 2
    /\ merges[1].task_id = merges[2].task_id
    /\ Len(EntriesOf(ledger)) >= 2
    /\ IdCount(EntriesOf(ledger), merges[2].task_id) = 1

\* C3: when the same task id is merged twice with two different PR references,
\* its entry afterwards holds the pr_url and pr_number of the latest merge.
C3_LatestPrWins ==
    \A i, j \in DOMAIN merges :
        (/\ i < j
         /\ merges[i].task_id = merges[j].task_id
         /\ j = LastMergeOf(merges[j].task_id)
         /\ merges[i].pr # NoIssue /\ merges[j].pr # NoIssue
         /\ merges[i].pr # merges[j].pr)
        => LET e == EntryOf(EntriesOf(ledger), merges[j].task_id) IN
           /\ "pr_url" \in DOMAIN e.github /\ "pr_number" \in DOMAIN e.github
           /\ e.github.pr_url = merges[j].pr.url
           /\ e.github.pr_number = merges[j].pr.number
C3_Witness ==
    /\ Len(merges) = 2
    /\ merges[1].task_id = merges[2].task_id
    /\ merges[1].pr = Ref("pull", 7) /\ merges[2].pr = Ref("pull", 8)
    /\ EntryOf(EntriesOf(ledger), merges[2].task_id).github.pr_number = 8

-----------------------------------------------------------------------------
(* Claims about the linkage validator (specification SpecLinkage)          *)

CountOf(kind, id) ==
    Cardinality({i \in DOMAIN errors : errors[i] = [kind |-> kind, id |-> id]})
LinkKinds == {"task_without_report", "report_without_task", "task_not_in_ledger"}
KindRank(kind) ==
    CASE kind = "task_without_report" -> 1
      [] kind = "report_without_task" -> 2
      [] kind = "task_not_in_ledger" -> 3

\* C6: the linkage validator reports exactly one violation for each id in
\* T \ R (task has no report), one for each id in R \ T (report has no task),
\* one for each id in T \ L (task not in ledger), and nothing else; an id in
\* all three sets produces no violation.
C6_ExactViolations ==
    rc # -1 =>
        /\ \A id \in LinkIds :
              /\ CountOf("task_without_report", id)
                    = (IF id \in task_ids /\ id \notin report_ids THEN 1 ELSE 0)
              /\ CountOf("report_without_task", id)
                    = (IF id \in report_ids /\ id \notin task_ids THEN 1 ELSE 0)
              /\ CountOf("task_not_in_ledger", id)
                    = (IF id \in task_ids /\ id \notin ledger_ids THEN 1 ELSE 0)
        /\ \A i \in DOMAIN errors : errors[i].kind \in LinkKinds /\ errors[i].id \in LinkIds
        /\ \A id \in task_ids \cap report_ids \cap ledger_ids :
              \A i \in DOMAIN errors : errors[i].id # id
        /\ rc = (IF errors = <<>> THEN 0 ELSE 1)
C6_Witness ==
    /\ rc = 1
    /\ task_ids = {<<"A">>, <<"B">>}
    /\ report_ids = {<<"B">>, <<"C">>}
    /\ ledger_ids = {<<"B">>}
    /\ errors = << [kind |-> "task_without_report", id |-> <<"A">>],
                   [kind |-> "report_without_task", id |-> <<"C">>],
                   [kind |-> "task_not_in_ledger", id |-> <<"A">>] >>

\* C7 as stated: the reported sequence is sorted ascending by id.
C7_Original ==
    rc # -1 =>
        \A i, j \in DOMAIN errors :
            i < j => (errors[i].id = errors[j].id \/ StrLess(errors[i].id, errors[j].id))
\* C7 as amended: the sequence is determined by the three id sets: the
\* violations come in three groups (tasks without report, reports without
\* task, tasks not in ledger, in this order) and within each group the ids
\* are strictly ascending in string order.
C7_SortedWithinGroups ==
    rc # -1 =>
        \A i, j \in DOMAIN errors :
            i < j =>
                /\ KindRank(errors[i].kind) <= KindRank(errors[j].kind)
                /\ errors[i].kind = errors[j].kind => StrLess(errors[i].id, errors[j].id)
C7_Witness ==
    /\ rc = 1
    /\ \E i, j \in DOMAIN errors :
          /\ j = i + 1
          /\ errors[i].kind = errors[j].kind
          /\ errors[i].id = <<"A">> /\ errors[j].id = <<"A", "1">>
    /\ \E i, j \in DOMAIN errors : i < j /\ StrLess(errors[j].id, errors[i].id)

-----------------------------------------------------------------------------
(* Claims about validate_report (specification SpecReport)                 *)

Mentions(field) == {i \in DOMAIN errors : errors[i].field = field}

\* C8: validate_report, applied to a report that lacks the key
\* acceptance_criteria_results, returns at least one violation naming
\* 'acceptance_criteria_results', whatever the other fields of the report and
\* whatever the contract's required_fields list contains.
C8_MissingAcrReported ==
    (rc # -1 /\ ~HasKey(report, "acceptance_criteria_results"))
        => (Mentions("acceptance_criteria_results") # {} /\ rc = 1)
C8_Witness ==
    /\ rc = 1
    /\ report = WithField(ValidReport, "acceptance_criteria_results", Absent)
    /\ ~HasKey(contract, "required_fields")
    /\ HasKey(contract, "enums")
    /\ Len(errors) = 1
    /\ errors[1].field = "acceptance_criteria_results"

\* C9: for a report whose summary is a list of n strings, validate_report
\* emits a summary-length violation citing n and the limit exactly when n
\* exceeds the limit, the limit being constraints.summary_max_lines of the
\* contract if given and 6 otherwise; n <= limit gives no summary violation.
C9_Limit ==
    IF HasKey(contract, "constraints") /\ HasKey(contract.d["constraints"], "summary_max_lines")
    THEN contract.d["constraints"].d["summary_max_lines"].v
    ELSE 6
C9_SummaryLimit ==
    (/\ rc # -1
     /\ HasKey(report, "summary")
     /\ report.d["summary"].t = "list"
     /\ \A i \in DOMAIN report.d["summary"].items : report.d["summary"].items[i].t = "str")
    => LET n == Len(report.d["summary"].items) IN
       IF n > C9_Limit
       THEN /\ Cardinality(Mentions("summary")) = 1
            /\ \A i \in Mentions("summary") :
                  /\ errors[i].kind = "summary_too_long"
                  /\ errors[i].n = n
                  /\ errors[i].max = C9_Limit
       ELSE Mentions("summary") = {}
C9_Witness ==
    /\ rc = 1
    /\ ~HasKey(contract, "constraints")
    /\ HasKey(report, "summary")
    /\ report.d["summary"] = Lines(7)
    /\ \E i \in DOMAIN errors :
          errors[i].kind = "summary_too_long" /\ errors[i].n = 7 /\ errors[i].max = 6

-----------------------------------------------------------------------------
(* Claims about the integration run (specification Spec)                   *)

LastRun == runs[Len(runs)]
PreviousRun == runs[Len(runs) - 1]
\* the last two runs were given the same task id, both ran to the end and
\* returned 0, and no issue named the id when the first of them started
TwoCompleteRuns ==
    /\ pc = "exit"
    /\ Len(runs) >= 2
    /\ LastRun.task_id = PreviousRun.task_id
    /\ LastRun.rc = 0 /\ ~LastRun.raised
    /\ PreviousRun.rc = 0 /\ ~PreviousRun.raised
    /\ PreviousRun.before = 0

\* C1: two consecutive complete runs of the integration for one task id,
\* starting from a repository with no issue for that id, leave at most one
\* issue whose title contains the task id.
C1_AtMostOneIssue ==
    TwoCompleteRuns => Cardinality(Matching(issues, LastRun.task_id)) <= 1

\* the positions of the current run's log at which cmd was issued
CallsOf(cmd) == {i \in DOMAIN calls : calls[i].cmd = cmd}

\* C11: a forced push is attempted only directly after the normal push of
\* the same run was rejected, and at most once: a run makes at most one
\* normal push, at most one forced push, and so at most two push attempts.
C11_ForcePushOnlyAfterRejection ==
    /\ Cardinality(CallsOf("push")) <= 1
    /\ Cardinality(CallsOf("push -f")) <= 1
    /\ \A i \in CallsOf("push -f") :
          i > 1 /\ calls[i - 1] = [cmd |-> "push", ok |-> FALSE]
C11_Witness ==
    /\ pc = "pr_main"
    /\ \E i \in CallsOf("push -f") :
          calls[i].ok /\ calls[i - 1] = [cmd |-> "push", ok |-> FALSE]

RunEnded == pc \in {"exit", "raised"}
IssueStageOk == issue_data # NoIssue
PrStageOk == pr_data # NoIssue

\* C12: a run exits 0 when the issue stage succeeded and the PR stage
\* succeeded or was skipped; it exits 1 when the task file is missing, the
\* repository is not resolved, authentication is unresolved, or the PR stage
\* failed after a successful issue stage.
C12_ExitCodes ==
    RunEnded =>
       /\ (IssueStageOk /\ (args.skip_pr \/ PrStageOk)) => rc = 0
       /\ (\/ task = NoTask
           \/ repo = <<>>
           \/ auth = "none"
           \/ IssueStageOk /\ ~args.skip_pr /\ ~PrStageOk) => rc = 1

-----------------------------------------------------------------------------
(* Claims about the validators' entry points (specification SpecBatch)     *)

\* C13: validate_report and validate_task return a list of violations for
\* every document mapping and every contract value, malformed contracts
\* included, and never raise: main ends with an exception only when the
\* contract file itself cannot be parsed.
C13_ValidationTotal == scan = "raised" => contract = Unparsable

\* the violations all_errors holds for the document at path, in order
ErrorsOf(path) ==
    LET own == SelectSeq(errors, LAMBDA e : e.file = path)
    IN  [i \in DOMAIN own |-> own[i].error]
IsMapping(data) == data # Unparsable /\ data.t = "dict"
\* main got past the checks of its arguments and of the contract file
ScanEnded == scan = "exit" \/ (scan = "raised" /\ contract # Unparsable)
Validated(data) ==
    IF validator = "task" THEN validate_task(data, contract)
    ELSE validate_report(data, contract)

\* C14: in a batch, a document that cannot be parsed or whose top level is
\* no mapping contributes exactly one violation, every document of the batch
\* is handled whatever the documents before it were, the violations of all
\* documents are in the final list, and the exit code is 1 iff the list is
\* not empty.
C14_BatchTolerant ==
    ScanEnded =>
       /\ scan = "exit" /\ file_no = Len(doc_files)
       /\ \A path \in DOMAIN doc_files :
             IF IsMapping(doc_files[path])
             THEN ErrorsOf(path) = Validated(doc_files[path])
             ELSE Len(ErrorsOf(path)) = 1
       /\ Len(errors) >= Cardinality({p \in DOMAIN doc_files : ~IsMapping(doc_files[p])})
       /\ rc = (IF errors # <<>> THEN 1 ELSE 0)

Authenticated == auth \in {"gh_cli", "token"}

\* C15: in CI mode, when neither `gh auth status` nor an environment token
\* authenticates, the run ends at once with exit code 1: the prompt is not
\* reached, .env.local is not written, no command has run, and the issues,
\* the branches and the ledger are as they were.
C15_CiModeFailsAtOnce ==
    [][(pc = "auth" /\ args.ci_mode /\ ~Authenticated')
          => /\ pc' = "exit" /\ rc' = 1
             /\ calls' = <<>>
             /\ UNCHANGED <<issues, branches, ledger>>]_vars
C15_Witness ==
    /\ pc = "exit" /\ rc = 1 /\ args.ci_mode
    /\ task # NoTask /\ repo # <<>> /\ ~Authenticated
    /\ calls = <<>>
    /\ issues # <<>> /\ ledger.exists

-----------------------------------------------------------------------------
(* Claims about _detect_repository (specification SpecResolver)            *)

Slash(owner, name) == owner \o <<"/">> \o name

\* C16: _detect_repository returns GITHUB_REPOSITORY whenever it is set; if
\* not, for an origin git@github.com:owner/repo or
\* https://github.com/owner/repo, with or without a trailing .git, it
\* returns exactly owner/repo.
C16_Resolver ==
    resolved =>
       IF repo_env # <<>> THEN repo = repo_env
       ELSE \A form \in {"ssh", "https"}, owner \in Owners, name \in RepoNames,
               dot_git \in BOOLEAN :
               (origin.ok /\ Strip(origin.stdout) = RemoteUrl(form, owner, name, dot_git))
                  => repo = Slash(owner, name)

IssueCommands == {"issue list", "issue create", "issue edit"}
IssueCommandFailed ==
    \E i \in DOMAIN calls : calls[i].cmd \in IssueCommands /\ ~calls[i].ok
PrStageEntered ==
    \E i \in DOMAIN calls : calls[i].cmd \in {"checkout", "checkout -b"}
\* the ledger holds an entry for the run's task id whose issue is null
NullIssueRecorded ==
    /\ ledger.exists /\ ledger.kind = "mapping"
    /\ LET i == FindEntry(ledger.tasks, args.task_id) IN
       /\ i # 0
       /\ ledger.tasks[i].github.issue_url = NoIssue.url
       /\ ledger.tasks[i].github.issue_number = NoIssue.number

\* C17: when the issue search, creation or update of a run fails, the run
\* goes on with a null issue reference, enters the PR stage unless --skip-pr
\* is given, and ends with a ledger entry for the task id whose issue_url
\* and issue_number are null.
C17_IssueFailureDegrades ==
    (IssueCommandFailed /\ pc \notin {"find", "issue"}) =>
       /\ issue_data = NoIssue
       /\ RunEnded => /\ pc = "exit"
                      /\ args.skip_pr \/ PrStageEntered
                      /\ NullIssueRecorded

LedgerUpdated ==
    calls # <<>> /\ calls[Len(calls)] = [cmd |-> "write ledger", ok |-> TRUE]
PrCreationFailed ==
    /\ ~args.skip_pr /\ pr_data = NoIssue
    /\ \E i \in DOMAIN calls : calls[i].cmd \in {"pr create main", "pr create master"}

\* C18 (as stated): every degraded condition lets the run go on, and the run
\* returns 0 whenever the ledger update completes.
C18_Original == (pc = "exit" /\ LedgerUpdated) => rc = 0

\* C18 (amended): a run that is authenticated returns only after the ledger
\* update, whatever failed in the issue stage, with or without a report and
\* whatever the ledger file held; it returns 0, except that it returns 1
\* when the pull request could not be created.
C18_DegradedRunsComplete ==
    (pc = "exit" /\ Authenticated) =>
       /\ LedgerUpdated
       /\ rc = (IF PrCreationFailed THEN 1 ELSE 0)
       /\ PrCreationFailed <=> (~args.skip_pr /\ pr_data = NoIssue)
C18_Witness ==
    /\ pc = "exit" /\ rc = 1 /\ LedgerUpdated
    /\ issue_data # NoIssue /\ PrCreationFailed
    /\ calls[Len(calls) - 1] = [cmd |-> "pr create master", ok |-> FALSE]

RunCommands ==
    IssueCommands \cup {"checkout", "checkout -b", "add", "commit", "push", "push -f",
                        "pr create main", "pr create master"}

\* C19: no failure of a git command or of a request to the remote API leaves
\* run() as an uncaught exception: no step in which a command of the run
\* fails ends the run raised.
C19_NoRawErrors ==
    [][(pc # "raised" /\ pc' = "raised")
          => ~(/\ Len(calls') = Len(calls) + 1
               /\ calls'[Len(calls')].cmd \in RunCommands
               /\ ~calls'[Len(calls')].ok)]_vars

\* the run stopped at the task document, at the repository or at the
\* authentication
FatalAbort ==
    /\ pc = "exit"
    /\ task = NoTask \/ repo = <<>> \/ ~Authenticated
SideEffects ==
    RunCommands \cup {"write ledger"}

\* C20: a run that aborts fatally (no task document, no repository slug, no
\* authentication) has no side effect: it has run no issue, git or PR
\* command and has not written the ledger; the issues, the branches and the
\* ledger are what they were when the run started.
C20_FatalAbortNoSideEffect ==
    /\ [](FatalAbort => /\ rc = 1
                        /\ \A i \in DOMAIN calls : calls[i].cmd \notin SideEffects)
    /\ [][FatalAbort' /\ ~FatalAbort => UNCHANGED <<issues, branches, ledger>>]_vars
C20_Witness ==
    /\ FatalAbort /\ task # NoTask /\ repo # <<>>
    /\ calls = <<[cmd |-> "prompt", ok |-> TRUE]>>
    /\ issues # <<>> /\ ledger.exists /\ branches.remote # {}

-----------------------------------------------------------------------------
(* Claims about _create_pr and the branch of the run (specification Spec)  *)

PrMainFailed(i) == calls[i] = [cmd |-> "pr create main", ok |-> FALSE]

\* C21: the pull request is first requested against main; when that request
\* fails, with either transport, exactly one more request is made, against
\* master, and there is never a third; when both fail there is no PR
\* reference.
C21_MainThenMasterOnce ==
    /\ Cardinality(CallsOf("pr create main")) <= 1
    /\ Cardinality(CallsOf("pr create master")) <= 1
    /\ \A i \in CallsOf("pr create master") : i > 1 /\ PrMainFailed(i - 1)
    /\ \A i \in DOMAIN calls :
          (PrMainFailed(i) /\ pc # "pr_master")
             => i < Len(calls) /\ calls[i + 1].cmd = "pr create master"
    /\ \A i \in CallsOf("pr create master") : ~calls[i].ok => pr_data = NoIssue

\* C22: a branch that exists in the clone or on origin is checked out and
\* never created; `checkout -b` is used only for a branch that exists in
\* neither place.
C22_ReuseExistingBranch ==
    [][(pc = "stage" /\ ~args.skip_pr /\ pc' # "stage")
          => calls'[Len(calls')].cmd =
                (IF branch_name' \in branches.local \cup branches.remote
                 THEN "checkout" ELSE "checkout -b")]_vars

-----------------------------------------------------------------------------
(* More claims about _generate_branch_name and _generate_commit_message    *)
(* (specification SpecBranch)                                              *)

IsPrefix(p, s) == Len(p) <= Len(s) /\ p = SubSeq(s, 1, Len(p))
\* p is a prefix of s that ends immediately before a hyphen of s
EndsBeforeHyphen(p, s) == IsPrefix(p, s) /\ Len(p) < Len(s) /\ s[Len(p) + 1] = "-"

\* C23 (as stated): an untruncated name of more than 50 characters is cut to
\* a prefix that ends immediately before one of its hyphens; a name of at
\* most 50 characters is returned unchanged.
C23_Original ==
    branch_name # <<>> =>
       LET u == UntruncatedBranch(task) IN
       IF Len(u) > BranchLimit THEN EndsBeforeHyphen(branch_name, u)
       ELSE branch_name = u

\* C23 (amended): an untruncated name of more than 50 characters is cut
\* immediately before the last hyphen among its first 50 characters; if
\* these hold no hyphen (a task id of 42 characters or more without a
\* hyphen) it is cut to its first 50 characters, wherever that falls; a name
\* of at most 50 characters is returned unchanged.
C23_HyphenBoundary ==
    branch_name # <<>> =>
       LET u == UntruncatedBranch(task)
           head == Take(u, BranchLimit)
       IN  IF Len(u) <= BranchLimit THEN branch_name = u
           ELSE IF HasHyphen(head)
           THEN /\ EndsBeforeHyphen(branch_name, head)
                /\ \A i \in (Len(branch_name) + 2)..BranchLimit : head[i] # "-"
           ELSE branch_name = head
C23_Witness ==
    /\ BranchTruncated
    /\ Len(branch_name) > Len(S_feature \o task.task_id) + 1
    /\ Len(branch_name) < BranchLimit - 1
    /\ EndsBeforeHyphen(branch_name, UntruncatedBranch(task))

-----------------------------------------------------------------------------
(* Claims about _create_or_update_issue (specification Spec)               *)

LastCall(cs) == cs[Len(cs)]

\* C24: when the search found an issue, the issue stage makes one request,
\* an edit, that changes at most the body of that issue and creates no
\* issue; when it found none, the stage makes one request, a creation, that
\* edits no issue and, when it succeeds, adds exactly one issue titled
\* '[<task_id>] <title>' with the two fixed labels.
C24_EditOrCreate ==
    [][pc = "issue" =>
          /\ Len(calls') = Len(calls) + 1
          /\ IF existing # NoIssue
             THEN /\ LastCall(calls').cmd = "issue edit"
                  /\ Len(issues') = Len(issues)
                  /\ \A i \in DOMAIN issues :
                        /\ issues'[i].title = issues[i].title
                        /\ issues'[i].labels = issues[i].labels
                        /\ issues'[i].number = issues[i].number
                        /\ i # existing.number => issues'[i] = issues[i]
             ELSE /\ LastCall(calls').cmd = "issue create"
                  /\ IF LastCall(calls').ok
                     THEN /\ Len(issues') = Len(issues) + 1
                          /\ SubSeq(issues', 1, Len(issues)) = issues
                          /\ LastCall(issues').title = IssueTitle(task)
                          /\ LastCall(issues').labels = {"agent-task", "automation"}
                     ELSE issues' = issues]_vars
C24_Witness ==
    /\ pc = "stage" /\ run_no = 2
    /\ LastCall(calls) = [cmd |-> "issue edit", ok |-> TRUE]
    /\ Len(issues) = 1 /\ issue_data = Ref("issues", 1)
    /\ issues[1].title = IssueTitle(task)

-----------------------------------------------------------------------------
(* More claims about validate_report (specification SpecReport)            *)

StatusViolations == {i \in DOMAIN errors : errors[i].kind = "status_not_allowed"}
AllowedStatus == DictGet(DictGet(contract, "enums", EmptyDict), "status", PyList(<<>>))

\* C25: the status-enum check applies only to reports that have a status: a
\* status that is no member of the contract's enums.status gives one status
\* violation, a member gives none, and a report without status gets no
\* status violation (only the missing-required-field one).
C25_EnumOnlyIfPresent ==
    rc # -1 =>
       IF HasKey(report, "status")
       THEN Cardinality(StatusViolations) =
               (IF PyIn(report.d["status"], AllowedStatus) THEN 0 ELSE 1)
       ELSE StatusViolations = {}

EndsWith(s, suffix) ==
    Len(suffix) <= Len(s) /\ SubSeq(s, Len(s) - Len(suffix) + 1, Len(s)) = suffix
\* the text after the first line: a blank line, the goal, k criteria and,
\* for an issue number n other than 0, a blank line and the footer
BodyText(t, k, n) ==
    <<"\n", "\n", "-", " ">> \o t.goal
    \o Flatten([i \in 1..k |-> <<"\n", "-", " ">> \o t.acceptance_criteria[i]])
    \o (IF n # 0
        THEN <<"\n", "\n", "C", "l", "o", "s", "e", "s", " ", "#">> \o IntToStr(n)
        ELSE <<>>)

\* C26: the commit message ends with the goal, then the first min(3, n) of
\* the n acceptance criteria in their order and no later one, then the
\* footer 'Closes #<number>' exactly when the issue reference has a number.
C26_GoalCriteriaFooter ==
    commit_msg # <<>> =>
       LET n == Len(task.acceptance_criteria)
           k == IF n < 3 THEN n ELSE 3
       IN  EndsWith(commit_msg, BodyText(task, k, issue_data.number))
C26_Witness ==
    /\ commit_msg # <<>>
    /\ Len(task.acceptance_criteria) = 4
    /\ issue_data.number # 0
    /\ EndsWith(commit_msg, <<"c", "3", "\n", "\n", "C", "l", "o", "s", "e", "s", " ", "#">>
                            \o IntToStr(issue_data.number))

-----------------------------------------------------------------------------
(* Claims about _prompt_for_auth (specification Spec)                       *)

Prompted == typed # NoInput
TokenTyped == typed.choice = "2" /\ typed.token \notin {"", "EOF"}
SecretsWritten == \E i \in DOMAIN calls : calls[i].cmd = "write .env.local"

\* C27: the interactive prompt ends authenticated with method token only for
\* choice 2 with a non-empty token, and only then is .env.local written;
\* choice 1, choice 3, any other input, an empty token and an interrupted
\* prompt end unauthenticated without the write, and the run then ends with
\* exit code 1, no command run, and the issues, the branches and the ledger
\* as they were.
C27_PromptOutcome ==
    /\ [](Prompted =>
            /\ auth = (IF TokenTyped THEN "token" ELSE "none")
            /\ SecretsWritten <=> TokenTyped
            /\ ~TokenTyped => /\ pc = "exit" /\ rc = 1
                              /\ calls = <<[cmd |-> "prompt", ok |-> TRUE]>>)
    /\ [][pc = "prompt" /\ ~TokenTyped' => UNCHANGED <<issues, branches, ledger>>]_vars
C27_Witness ==
    /\ pc = "exit" /\ rc = 1 /\ auth = "none"
    /\ typed = [choice |-> "2", token |-> ""]
    /\ ~SecretsWritten
    /\ issues # <<>> /\ ledger.exists /\ branches.remote # {}

-----------------------------------------------------------------------------
(* Claims about the frame of _update_ledger (specification SpecLedger)      *)

MergedFields == {"status", "github", "completed"}
\* entry e2 is entry e1 except, at most, for the merged fields
SameButMerged(e1, e2) ==
    /\ DOMAIN e2 = DOMAIN e1 \cup MergedFields
    /\ \A k \in DOMAIN e1 \ MergedFields : e2[k] = e1[k]

\* C28: a ledger merge for task id X leaves every item that is not X's entry
\* unchanged and at its position, leaves the version unchanged, and leaves
\* the fields of X's entry other than status, github and completed unchanged.
C28_MergeFrame ==
    [][merges' # merges =>
         LET X == merges'[Len(merges')].task_id
             i == FindEntry(ledger.tasks, X)
         IN  /\ ledger'.version = ledger.version
             /\ Len(ledger'.tasks) = Len(ledger.tasks) + (IF i = 0 THEN 1 ELSE 0)
             /\ \A j \in DOMAIN ledger.tasks : j # i => ledger'.tasks[j] = ledger.tasks[j]
             /\ i # 0 => SameButMerged(ledger.tasks[i], ledger'.tasks[i])]_vars
C28_Witness ==
    /\ merges # <<>> /\ merges[Len(merges)].task_id = <<"T", "1">>
    /\ ledger.version = 1
    /\ Len(ledger.tasks) = 2
    /\ ledger.tasks[2] = CandidateItems[3]
    /\ DOMAIN ledger.tasks[1] = {"id", "notes", "status", "github", "completed"}
    /\ ledger.tasks[1].id = <<"T", "1">>
    /\ ledger.tasks[1].notes = "kept" /\ ledger.tasks[1].status = "completed"

\* the PR reference recorded in entry e, NoIssue if it has none
RecordedPr(e) ==
    IF "github" \in DOMAIN e /\ "pr_url" \in DOMAIN e.github
    THEN [number |-> e.github.pr_number, url |-> e.github.pr_url]
    ELSE NoIssue

\* C29: a ledger merge for task id X that supplies no PR reference does not
\* remove the PR reference that X's entry holds from an earlier merge.
C29_PrReferenceKept ==
    [][(merges' # merges /\ merges'[Len(merges')].pr = NoIssue) =>
         LET X == merges'[Len(merges')].task_id
             i == FindEntry(ledger.tasks, X)
         IN  (i # 0 /\ RecordedPr(ledger.tasks[i]) # NoIssue)
                => RecordedPr(ledger'.tasks[i]) = RecordedPr(ledger.tasks[i])]_vars

-----------------------------------------------------------------------------
(* Claims about the branch recorded in the ledger (specification Spec)      *)

\* the entry of the run's task id in the ledger the run has written
RunEntry == ledger.tasks[FindEntry(ledger.tasks, args.task_id)]

\* C30: the branch recorded in the ledger entry of a run's task is
\* 'feature/<task_id>', whatever the title and whatever branch the run
\* checked out and pushed; the witness is a run whose pushed branch has
\* another name than the recorded one.
C30_LedgerBranchFromIdOnly ==
    LedgerUpdated => RunEntry.github.branch = S_feature \o args.task_id
C30_Witness ==
    /\ pc = "exit" /\ LedgerUpdated /\ pr_data # NoIssue
    /\ branch_name \in branches.local \cap branches.remote
    /\ RunEntry.github.branch = S_feature \o args.task_id
    /\ RunEntry.github.branch # branch_name

-----------------------------------------------------------------------------
(* Claims about concurrent ledger merges (specification SpecRace)           *)

AllDone == \A w \in Writers : writers[w].pc = "done"
HasEntry(file, task_id) == FindEntry(LoadLedger(file).tasks, task_id) # 0

\* C31: when the concurrent invocations have all written, the ledger file is
\* the document of one of them alone: what that invocation loaded, merged
\* with its own entry.  The entry of another invocation, for another task
\* id, is in the file only if it was in what that invocation loaded; the
\* witness is the interleaving in which it was not (a lost update).
C31_LastWriterWins ==
    AllDone =>
       \E w \in Writers :
          /\ ledger = Rewritten(w)
          /\ \A v \in Writers :
                writers[v].task_id # writers[w].task_id
                   => (HasEntry(ledger, writers[v].task_id)
                          <=> HasEntry(writers[w].seen, writers[v].task_id))
C31_Witness ==
    /\ AllDone
    /\ writers[1].task_id # writers[2].task_id
    /\ HasEntry(ledger, writers[2].task_id)
    /\ ~HasEntry(ledger, writers[1].task_id)

-----------------------------------------------------------------------------
(* Claims about remotes of other forms (specification SpecResolver)         *)

\* the url is git@github.com:<owner>/<repo> or https://github.com/<owner>/<repo>
\* with or without .git
HasGitHubForm(url) ==
    \E form \in {"ssh", "https"}, owner \in Owners, name \in RepoNames, dot_git \in BOOLEAN :
        url = RemoteUrl(form, owner, name, dot_git)

\* C32: without GITHUB_REPOSITORY, _detect_repository returns None when there
\* is no origin remote and for every origin url that has neither the SSH
\* form nor the HTTPS form of a GitHub remote.
C32_OtherRemotesGiveNone ==
    (resolved /\ repo_env = <<>> /\ (~origin.ok \/ ~HasGitHubForm(Strip(origin.stdout))))
       => repo = <<>>

-----------------------------------------------------------------------------
(* Claims about the issue a run selects (specification Spec)                *)

\* C33: a run for task id X edits only an issue created for X: the body of
\* every issue is the body of the task whose id its title names.
C33_OnlyOwnIssueEdited ==
    \A i \in DOMAIN issues :
        issues[i].title = IssueTitle(_load_task(issues[i].body.task))

\* C34: every run that gets past authentication has written the ledger
\* exactly once when it terminates, however it terminates, and never writes
\* it twice.
C34_LedgerWrittenOnce ==
    /\ Cardinality(CallsOf("write ledger")) <= 1
    /\ (RunEnded /\ Authenticated) => Cardinality(CallsOf("write ledger")) = 1

====
